---- MODULE Spec2Model ----
(***************************************************************************)
(* Model of the keenetic-maxprobe Web UI server                            *)
(* (src/collectors/py/webui/server.py): the run control of class App       *)
(* (start_run, stop_run, get_status under App.lock), the probe processes   *)
(* it spawns, and the download handler Handler.serve_download over a small *)
(* file system.                                                            *)
(*                                                                         *)
(* Environment assumption of the run-control part: subprocess.Popen        *)
(* succeeds (the probe binary exists and is executable).                   *)
(***************************************************************************)
EXTENDS Integers, Sequences, FiniteSets, TLC

\* ------------------------------------------------------------------ bounds
NThreads == 2       \* concurrent request-handler threads (ThreadingHTTPServer)
MaxProcs == 2       \* probe processes spawned over a behaviour
MaxRestarts == 1    \* restarts of the control service over a behaviour

Threads == 1..NThreads
Pids == 1..MaxProcs
NoProc == 0         \* RunState.proc is None
NoThread == 0       \* App.lock is free

VARIABLES
    run_state,   \* App.run_state: [proc, started_ts, cmd]
    lock,        \* App.lock: NoThread, or the thread inside `with self.lock`
    pc,          \* per handler thread: its position in start_run/stop_run/get_status
    held,        \* per thread: the local `proc` of stop_run
    result,      \* the dict the last finished call returned (seq: parity of the number of responses)
    os,          \* per pid: "unborn" | "alive" | "exited" (the OS process)
    returncode,  \* per pid: Popen.returncode is set (poll/wait saw the exit)
    signals,     \* per pid: the signals sent through Popen.terminate/kill
    restarts,    \* number of service restarts so far
    crash_run,   \* the pid recorded in run_state when the service last went down
    fs,          \* download part: the optional directory entries that exist
    resp,        \* download part: the responses of the last requests, per slot
    app_token,   \* App.token: the configured secret, "" when the API is open
    http,        \* request gate: the last request to do_GET/do_POST and its outcome
    logf,        \* log part: the log the request selects (work directory or archive member)
    tail,        \* log part: the /api/log request in progress and its answer
    mtime,       \* listing part: st_mtime of the optional entries
    listing,     \* listing part: the listings answered for the present file system
    meta,        \* status part: the meta files present in the work directory "work"
    stat,        \* status part: the get_status call in progress and the last answer
    config,      \* command part: the lines of the config file (App.config)
    built,       \* command part: the last /api/run body and the command built for it
    files,       \* state part: the content of the state files and their .tmp files
    boot,        \* state part: main()'s position in writing the state files
    seen,        \* state part: what the last reader of a state file observed
    pipe,        \* pipe part: the unread bytes in the stdout pipe of each probe
    saved,       \* config part: the last POST /api/config, its body and its answer
    static       \* static part: the GET for a static file being made and its answer

\* The variables of run control.
ctl == <<run_state, lock, pc, held, result, os, returncode, signals, restarts, crash_run>>
\* The variables of the log part.
tailv == <<logf, tail>>
\* The variables of the parts that stand beside run control and downloads.
\* The variables of the listing part.
listv == <<mtime, listing>>
\* The variables of the status part.
statv == <<meta, stat>>
\* The variables of the command part.
buildv == <<config, built>>
\* The variables of the state-file part.
persistv == <<files, boot, seen>>
aux == <<app_token, http, tailv, listv, statv, buildv, persistv, pipe, saved, static>>

vars == <<run_state, lock, pc, held, result, os, returncode, signals, restarts, crash_run, fs, resp, aux>>

\* ----------------------------------------------------------- RunState, results
\* RunState(proc=None, started_ts=0.0, cmd=[])
IdleRunState == [proc |-> NoProc, started_ts |-> 0, cmd |-> <<>>]

NoResult == [kind |-> "none", ok |-> FALSE, pid |-> NoProc, cmd |-> <<>>,
             running |-> FALSE, stopped |-> FALSE, error |-> "", seq |-> 0]

\* The response r becomes the last response.
Respond(r) == result' = [r EXCEPT !.seq = 1 - result.seq]

\* {"ok": True, "pid": proc.pid, "cmd": cmd}
StartAccepted(p, cmd) == [NoResult EXCEPT !.kind = "start", !.ok = TRUE, !.pid = p, !.cmd = cmd]
\* {"ok": False, "error": "Probe is already running"}
StartRejected == [NoResult EXCEPT !.kind = "start", !.error = "Probe is already running"]
\* {"ok": True, "stopped": False, "note": "Not running"}
StopNotRunning == [NoResult EXCEPT !.kind = "stop", !.ok = TRUE]
\* {"ok": True, "stopped": True}
StopStopped == [NoResult EXCEPT !.kind = "stop", !.ok = TRUE, !.stopped = TRUE]
\* {"ok": True, "running": running, "pid": pid, "cmd": cmd, ...}
StatusResult(running, p, cmd) ==
    [NoResult EXCEPT !.kind = "status", !.ok = TRUE, !.running = running, !.pid = p, !.cmd = cmd]

\* time.time() at the moment of a spawn: positive, and it never decreases.
time_now == 1 + Cardinality({p \in Pids : os[p] # "unborn"})

\* The pid the next subprocess.Popen gets.
FreshPid == CHOOSE p \in Pids : os[p] = "unborn" /\ \A q \in Pids : os[q] = "unborn" => p <= q

\* ----------------------------------------------------------------- App.lock
LockIgnored == TRUE

\* `with self.lock:` can be entered: no thread is inside a `with self.lock` block
LockFree == lock = NoThread

\* leaving the `with self.lock:` block
Release == lock' = NoThread

\* ------------------------------------------------------------------- Popen
\* Popen.poll() is None: the process has not exited.
poll_is_None(p) == os[p] = "alive"

\* The effect of Popen.poll()/wait() on the Popen object: an exit is recorded.
Reaped(p) == IF p # NoProc /\ os[p] = "exited"
             THEN [returncode EXCEPT ![p] = TRUE]
             ELSE returncode

\* --------------------------------------------------------------- check_token
\* What a request can carry in each of the three channels.
ABSENT == "<absent>"                 \* headers.get(...) is None
SECRET == "secret"
HdrValues == {ABSENT, "", " ", SECRET, "secret ", "wrong"}
\* Authorization: <<scheme, " ", credentials>>, the separator and the
\* credentials present or not; <<>> when the header is absent.
AuthValues == {<<>>, <<"Bearer", " ", SECRET>>, <<"bearer", " ", "wrong">>,
               <<"Basic", " ", SECRET>>, <<"Bearer", " ">>, <<"Bearer">>}
\* The values of the ?token= parameters of the query string, in order.
QueryValues == {<<>>, <<"">>, <<SECRET>>, <<"wrong">>, <<"wrong", SECRET>>}

\* str.strip() and str.lower() on the values above
strip(v) == CASE v = " " -> "" [] v = "secret " -> SECRET [] v = " safe " -> "safe" [] OTHER -> v
lower(v) == IF v = "Bearer" THEN "bearer" ELSE IF v = "Basic" THEN "basic" ELSE v
truthy(v) == v # ABSENT /\ v # ""

\* parse_qs(...).get("token"): blank values are dropped
parse_qs_token(query) == SelectSeq(query, LAMBDA v : v # "")

check_token_header_only(hdr, auth, query) ==
    LET token == IF truthy(hdr) THEN strip(hdr) ELSE ""
    IN IF app_token = "" THEN "allow"
       ELSE IF token # "" /\ token = app_token THEN "allow" ELSE "deny"

\* App.check_token(handler): "allow" (True), "deny" (False) or "raise" (the
\* IndexError of auth.split(None, 1)[1] on a Bearer header without credentials).
check_token(hdr, auth, query) ==
    LET t1 == IF truthy(hdr) THEN strip(hdr) ELSE ""
        bearer == t1 = "" /\ Len(auth) >= 2 /\ lower(auth[1]) = "bearer" /\ auth[2] = " "
        t2 == IF bearer THEN strip(auth[3]) ELSE t1
        qs == parse_qs_token(query)
        t3 == IF t2 = "" THEN (IF qs = <<>> THEN "" ELSE qs[1]) ELSE t2
    IN IF bearer /\ Len(auth) < 3 THEN "raise"
       ELSE IF app_token = "" THEN "allow"
       ELSE IF t3 # "" /\ t3 = app_token THEN "allow" ELSE "deny"

\* -------------------------------------------------------- do_GET and do_POST
\* Request paths: <<prefix, rest>>.
GetPaths == {<<"/", "">>, <<"/static/", "app.js">>, <<"/download/", "a.tar.gz">>,
             <<"/api/", "status">>, <<"/api/", "ping">>, <<"/api/", "nope">>, <<"/other", "">>}
PostPaths == {<<"/api/", "run">>, <<"/api/", "stop">>, <<"/api/", "config">>,
              <<"/download/", "a.tar.gz">>, <<"/other", "">>}

\* The outcome of a request: the status of the gate's own answer (0: none, the
\* request went on or the handler raised) and the handler it was passed to.
Outcome(status, body, handler) == [status |-> status, body |-> body, handler |-> handler]
UnauthorizedOutcome == Outcome(401, "unauthorized", "none")
RaisedOutcome == Outcome(0, "", "none")

Gated(hdr, auth, query, handler) ==
    LET c == check_token(hdr, auth, query)
    IN IF c = "raise" THEN RaisedOutcome
       ELSE IF c = "deny" THEN UnauthorizedOutcome
       ELSE Outcome(0, "", handler)

\* Handler.do_GET
do_GET(path, hdr, auth, query) ==
    IF path = <<"/", "">> THEN Outcome(0, "", "serve_static")
    ELSE IF path[1] = "/static/" THEN Outcome(0, "", "serve_static")
    ELSE IF path[1] = "/download/" THEN Gated(hdr, auth, query, "serve_download")
    ELSE IF path[1] = "/api/" THEN Gated(hdr, auth, query, "handle_api_get")
    ELSE Outcome(404, "Not found", "none")

\* Handler.do_POST
do_POST(path, hdr, auth, query) ==
    IF path[1] = "/api/" THEN Gated(hdr, auth, query, "handle_api_post")
    ELSE Outcome(404, "Not found", "none")

NoRequest == [method |-> "", path |-> <<"", "">>, hdr |-> ABSENT, auth |-> <<>>, query |-> <<>>,
              out |-> Outcome(0, "", "none")]

\* A request arrives and passes through do_GET or do_POST.
HttpGet ==
    /\ \E path \in GetPaths, hdr \in HdrValues, auth \in AuthValues, query \in QueryValues :
         http' = [method |-> "GET", path |-> path, hdr |-> hdr, auth |-> auth, query |-> query,
                  out |-> do_GET(path, hdr, auth, query)]
    /\ UNCHANGED <<ctl, fs, resp, app_token, tailv, listv, statv, buildv, persistv, pipe, saved, static>>

HttpPost ==
    /\ \E path \in PostPaths, hdr \in HdrValues, auth \in AuthValues, query \in QueryValues :
         http' = [method |-> "POST", path |-> path, hdr |-> hdr, auth |-> auth, query |-> query,
                  out |-> do_POST(path, hdr, auth, query)]
    /\ UNCHANGED <<ctl, fs, resp, app_token, tailv, listv, statv, buildv, persistv, pipe, saved, static>>

\* The run-control requests (POST /api/run, POST /api/stop, GET /api/status)
\* pass the same gate: one that is let through takes the first step of its
\* handler below, one that is denied is answered here. (A request whose
\* check_token raises is dropped without any change of state.)
Credentials == HdrValues \X AuthValues \X QueryValues
Authorized == (\E c \in Credentials : check_token(c[1], c[2], c[3]) = "allow") = TRUE
Denied == (\E c \in Credentials : check_token(c[1], c[2], c[3]) = "deny") = TRUE

\* {"ok": False, "error": "unauthorized"}
UnauthorizedResult == [kind |-> "unauthorized", ok |-> FALSE, pid |-> NoProc, cmd |-> <<>>,
                       running |-> FALSE, stopped |-> FALSE, error |-> "unauthorized", seq |-> 0]

UnauthorizedAfterStop(t) ==
    /\ pc[t] = "idle"
    /\ Denied
    /\ LockFree
    /\ run_state' = [proc |-> NoProc, started_ts |-> 0, cmd |-> <<>>]
    /\ Respond(UnauthorizedResult)
    /\ UNCHANGED <<lock, pc, held, os, returncode, signals, restarts, crash_run, fs, resp, aux>>

\* if not app.check_token(self):
\*     return self._json({"ok": False, "error": "unauthorized"}, HTTPStatus.UNAUTHORIZED)
Unauthorized(t) ==
    /\ pc[t] = "idle"
    /\ Denied
    /\ Respond(UnauthorizedResult)
    /\ UNCHANGED <<run_state, lock, pc, held, os, returncode, signals, restarts, crash_run, fs, resp, aux>>

\* ------------------------------------------------------------- build_command
DEFAULTS ==
    [LANG_UI |-> "ru", PROFILE |-> "auto", MODE |-> "full", COLLECTORS |-> "all",
     CUSTOM_COLLECTORS |-> "", OUTBASE_POLICY |-> "auto", OUTBASE_OVERRIDE |-> "",
     CLEAN_OLD |-> "0", CLEAN_TMP |-> "0", DEBUG |-> "1", SPINNER |-> "0", YES |-> "1",
     NO_INSTALL |-> "0", DEPS_LEVEL |-> "core", DEPS_MODE |-> "cleanup", MAX_CPU |-> "85",
     MAX_MEM |-> "95", JOBS |-> "auto", WEB_BIND |-> "0.0.0.0", WEB_PORT |-> "0",
     WEB_TOKEN |-> ""]

ALLOWED ==
    [LANG_UI |-> {"ru", "en"},
     PROFILE |-> {"auto", "forensic", "diagnostic", "lite"},
     MODE |-> {"safe", "full", "extream"},
     COLLECTORS |-> {"all", "shonly", "shpy", "custom"},
     OUTBASE_POLICY |-> {"auto", "ram", "entware"},
     DEPS_LEVEL |-> {"core", "collectors"},
     DEPS_MODE |-> {"cleanup", "keep"},
     JOBS |-> {"auto"}]

\* JSON true and false in a request body; str() and bool() of a body value
JTRUE == "<true>"
JFALSE == "<false>"
str(v) == IF v = JTRUE THEN "True" ELSE IF v = JFALSE THEN "False" ELSE v
bool(v) == v \notin {"", JFALSE}

\* dict.get(key, default)
get(d, key, default) == IF key \in DOMAIN d THEN d[key] ELSE default

\* A config file is a sequence of lines <<key, value>> for `key=value`;
\* <<"#">> is a comment line. A value in double quotes loses them.
\* <<key, DQ, value, DQ>> is the line `key="value"` save_shell_config writes.
DQ == "\""
unquote(v) == CASE v = "\"bogus\"" -> "bogus" [] v = "\"safe\"" -> "safe" [] OTHER -> v
RECURSIVE load_shell_config(_)
load_shell_config(lines) ==
    IF lines = <<>> THEN <<>>
    ELSE LET line == lines[Len(lines)]
             before == load_shell_config(SubSeq(lines, 1, Len(lines) - 1))
         IN IF Len(line) < 2 THEN before
            ELSE IF Len(line) = 4 THEN (line[1] :> line[3]) @@ before
            ELSE (line[1] :> unquote(strip(line[2]))) @@ before

\* eff = {**DEFAULTS, **cfg}
Effective(cfg) ==
    [k \in DOMAIN DEFAULTS \cup DOMAIN cfg |-> IF k \in DOMAIN cfg THEN cfg[k] ELSE DEFAULTS[k]]

\* pick(key, allowed) of build_command: an empty or not allowed value of the
\* body falls back to eff.get(key, "")
pick(params, eff, key) ==
    LET v == strip(str(get(params, key, "")))
    IN IF v = "" THEN get(eff, key, "")
       ELSE IF v \notin ALLOWED[key] THEN get(eff, key, "")
       ELSE v

\* Path(outbase_override).is_absolute()
is_absolute(path) == path \in {"/tmp/out", "/etc"}
Flag(cond, option) == IF cond THEN <<option>> ELSE <<>>

\* App.build_command(params), cfg being load_shell_config(self.config)
build_command(params, cfg) ==
    LET eff == Effective(cfg)
        collectors == pick(params, eff, "COLLECTORS")
        custom_collectors == strip(str(get(params, "CUSTOM_COLLECTORS", get(eff, "CUSTOM_COLLECTORS", ""))))
        outbase_override == strip(str(get(params, "OUTBASE_OVERRIDE", get(eff, "OUTBASE_OVERRIDE", ""))))
        clean_old == IF "CLEAN_OLD" \in DOMAIN params THEN bool(params["CLEAN_OLD"])
                     ELSE get(eff, "CLEAN_OLD", "0") \in {"1", "true", "yes"}
        clean_tmp == IF "CLEAN_TMP" \in DOMAIN params THEN bool(params["CLEAN_TMP"])
                     ELSE get(eff, "CLEAN_TMP", "0") \in {"1", "true", "yes"}
        debug == bool(get(params, "DEBUG", JTRUE))
        no_install == bool(get(params, "NO_INSTALL", JFALSE))
        max_cpu == strip(str(get(params, "MAX_CPU", get(eff, "MAX_CPU", "85"))))
        max_mem == strip(str(get(params, "MAX_MEM", get(eff, "MAX_MEM", "95"))))
        jobs == strip(str(get(params, "JOBS", get(eff, "JOBS", "auto"))))
    IN <<"probe">>
       \o <<"--lang", pick(params, eff, "LANG_UI")>>
       \o <<"--mode", pick(params, eff, "MODE")>>
       \o <<"--profile", pick(params, eff, "PROFILE")>>
       \o <<"--collectors", collectors>>
       \o (IF collectors = "custom" /\ custom_collectors # ""
           THEN <<"--custom-collectors", custom_collectors>> ELSE <<>>)
       \o <<"--outbase-policy", pick(params, eff, "OUTBASE_POLICY")>>
       \o (IF outbase_override # "" /\ is_absolute(outbase_override)
           THEN <<"--outbase", outbase_override>> ELSE <<>>)
       \o <<"--deps-level", pick(params, eff, "DEPS_LEVEL")>>
       \o <<"--deps-mode", pick(params, eff, "DEPS_MODE")>>
       \o <<"--max-cpu", max_cpu>>
       \o <<"--max-mem", max_mem>>
       \o <<"--jobs", jobs>>
       \o Flag(clean_old, "--clean-old")
       \o Flag(clean_tmp, "--clean-tmp")
       \o Flag(no_install, "--no-install")
       \o (IF debug THEN <<"--debug">> ELSE <<"--no-debug">>)
       \o <<"--no-spinner", "--yes">>

\* The /api/run bodies the run-control part draws from: MODE given, not
\* allowed, or left out.
RunParams == {"MODE" :> "safe", "MODE" :> "bogus", <<>>}

\* The bodies and the config files of the command part.
EnumKeys == {"LANG_UI", "MODE", "PROFILE", "COLLECTORS", "OUTBASE_POLICY", "DEPS_LEVEL", "DEPS_MODE"}
NumberKeys == {"MAX_CPU", "MAX_MEM", "JOBS"}
FlagKeys == {"CLEAN_OLD", "CLEAN_TMP", "DEBUG", "NO_INSTALL"}
Bodies ==
    {<<>>, ("COLLECTORS" :> "custom") @@ ("CUSTOM_COLLECTORS" :> "mine")}
        \cup {k :> v : k \in EnumKeys, v \in {"", "safe", " safe ", "bogus"}}
        \cup {k :> v : k \in NumberKeys, v \in {"", "7", "-5", "auto"}}
        \cup {k :> v : k \in FlagKeys, v \in {JTRUE, JFALSE, "0"}}
        \cup {"OUTBASE_OVERRIDE" :> v : v \in {"/tmp/out", "/etc", "rel/out"}}
ConfigFiles ==
    {<<>>, << <<"#">> >>, << <<"CLEAN_OLD", "1">> >>}
        \cup {<< <<k, v>> >> : k \in EnumKeys, v \in {"safe", "\"bogus\"", "bogus"}}
        \cup {<< <<k, v>> >> : k \in NumberKeys, v \in {"7", "-5"}}
        \cup {<< <<"MODE", "safe">>, <<"MODE", v>> >> : v \in {"full", "bogus"}}

NoBuilt == [pc |-> "none", params |-> <<>>, cmd |-> <<>>]
NoSaved == [pc |-> "none", n |-> 0, body |-> <<>>, before |-> <<>>, ok |-> FALSE, status |-> 0]

\* The config file is written (by hand, or by POST /api/config, which stores
\* these keys as given).
WriteConfig ==
    /\ \E lines \in ConfigFiles : config' = lines
    /\ built' = NoBuilt
    /\ saved' = NoSaved
    /\ UNCHANGED <<ctl, fs, resp, app_token, http, tailv, listv, statv, persistv, pipe, static>>

\* POST /api/run with a body, as far as the command line: start_run calls
\* build_command(params).
ApiRunCommand ==
    /\ \E params \in Bodies :
         built' = [pc |-> "done", params |-> params,
                   cmd |-> build_command(params, load_shell_config(config))]
    /\ UNCHANGED <<ctl, fs, resp, app_token, http, tailv, listv, statv, config, persistv, pipe, saved, static>>

\* ------------------------------------------------------- tail_text, /api/log
MaxLog == 3        \* the longest log, in bytes
MaxBytes == 1      \* tail_text's max_bytes, scaled
MaxLines == 1      \* the largest line count a request asks for

\* Bytes of a log: an ASCII letter, a newline, the lead byte and the
\* continuation byte of a two-byte UTF-8 character.
NL == "nl"
LogBytes == {"a", NL, "lead", "cont"}
\* U+FFFD, which decode(errors="replace") puts for an undecodable byte
REPLACEMENT == "fffd"

\* bytes.decode("utf-8", errors="replace"): the characters of data
RECURSIVE decode(_)
decode(data) ==
    IF data = <<>> THEN <<>>
    ELSE IF data[1] = "lead" /\ Len(data) >= 2 /\ data[2] = "cont"
         THEN <<"e2">> \o decode(SubSeq(data, 3, Len(data)))
    ELSE IF data[1] \in {"lead", "cont"}
         THEN <<REPLACEMENT>> \o decode(Tail(data))
    ELSE <<data[1]>> \o decode(Tail(data))

\* The bytes a client receives for a text: str.encode("utf-8")
RECURSIVE encode(_)
encode(text) ==
    IF text = <<>> THEN <<>>
    ELSE (IF text[1] = "e2" THEN <<"lead", "cont">> ELSE <<text[1]>>) \o encode(Tail(text))

Min(a, b) == IF a <= b THEN a ELSE b
\* The last n bytes and the first n bytes of a file.
LastBytes(bytes, n) == SubSeq(bytes, Len(bytes) - Min(n, Len(bytes)) + 1, Len(bytes))
FirstBytes(bytes, n) == SubSeq(bytes, 1, Min(n, Len(bytes)))
\* Lines of a text: the newline-terminated ones and a last unterminated one.
LineCount(text) ==
    Cardinality({i \in 1..Len(text) : text[i] = NL})
        + (IF text # <<>> /\ text[Len(text)] # NL THEN 1 ELSE 0)

\* extract_member_text is called with max_bytes=256_000, a budget larger than
\* tail_text's default of 64_000.
ArchiveBytes == MaxBytes + 1

NoTail == [pc |-> "idle", kind |-> "run", lines |-> 0, max_bytes |-> 0, pos |-> 0,
           nread |-> 0, text |-> <<>>, note |-> ""]

\* The probe writes one more byte to the log of its work directory.
LogAppend ==
    /\ logf.work
    /\ Len(logf.bytes) < MaxLog
    /\ \E b \in LogBytes : logf' = [logf EXCEPT !.bytes = Append(@, b)]
    /\ UNCHANGED <<ctl, fs, resp, app_token, http, tail, listv, statv, buildv, persistv, pipe, saved, static>>

\* The probe packs the work directory into the archive and removes it, or a
\* new run starts with an empty log.
LogRotate ==
    /\ logf' = IF logf.work THEN [logf EXCEPT !.work = FALSE]
               ELSE [work |-> TRUE, bytes |-> <<>>]
    /\ UNCHANGED <<ctl, fs, resp, app_token, http, tail, listv, statv, buildv, persistv, pipe, saved, static>>

\* GET /api/log?kind=..&lines=.. up to the second seek of tail_text:
\*   f.seek(0, os.SEEK_END); size = f.tell()
\*   if size <= max_bytes: f.seek(0) else: f.seek(-max_bytes, os.SEEK_END)
\* Without a work directory the log comes from the latest archive:
\*   data = f.read(max_bytes) of the member, note "from_archive_head".
ApiLogOpen ==
    /\ tail.pc # "opened"
    /\ \E kind \in {"run", "errors"}, lines \in 1..MaxLines :
         IF logf.work
         THEN LET size == Len(logf.bytes)
              IN tail' = [pc |-> "opened", kind |-> kind, lines |-> lines,
                          max_bytes |-> MaxBytes,
                          pos |-> IF size <= MaxBytes THEN 0 ELSE size - MaxBytes,
                          nread |-> 0, text |-> <<>>, note |-> ""]
         ELSE LET data == FirstBytes(logf.bytes, ArchiveBytes)
              IN tail' = [pc |-> "done", kind |-> kind, lines |-> lines,
                          max_bytes |-> ArchiveBytes, pos |-> 0,
                          nread |-> Len(data), text |-> decode(data),
                          note |-> "from_archive_head"]
    /\ UNCHANGED <<ctl, fs, resp, app_token, http, logf, listv, statv, buildv, persistv, pipe, saved, static>>

\* data = f.read(); return data.decode("utf-8", errors="replace")
\* (a work directory removed meanwhile does not matter: the file is open)
ApiLogRead ==
    /\ tail.pc = "opened"
    /\ LET data == SubSeq(logf.bytes, tail.pos + 1, Len(logf.bytes))
       IN tail' = [tail EXCEPT !.pc = "done", !.nread = Len(data), !.text = decode(data)]
    /\ UNCHANGED <<ctl, fs, resp, app_token, http, logf, listv, statv, buildv, persistv, pipe, saved, static>>

\* ---------------------------------------------------------------- requests
\* A handler thread that is idle takes the next request (POST /api/run,
\* POST /api/stop, GET /api/status) with the first step of its handler; a
\* request that finds App.lock taken waits, i.e. its first step is not enabled.
\* A start is only taken while a pid is left for it within MaxProcs.
StartsInFlight == Cardinality({t \in Threads : pc[t] = "start_spawn"})
Spawned == Cardinality({p \in Pids : os[p] # "unborn"})
PidLeft == Spawned + StartsInFlight < MaxProcs

\* ---------------------------------------------------------------- start_run
StartCheckNoLiveness(t) ==
    /\ pc[t] = "idle"
    /\ PidLeft
    /\ LockFree
    /\ IF run_state.proc # NoProc
       THEN /\ Respond(StartRejected)
            /\ pc' = [pc EXCEPT ![t] = "idle"]
            /\ UNCHANGED <<run_state, lock, held, os, returncode, signals, restarts, crash_run, fs, resp, aux>>
       ELSE /\ lock' = t
            /\ pc' = [pc EXCEPT ![t] = "start_spawn"]
            /\ UNCHANGED <<run_state, held, result, os, returncode, signals, restarts, crash_run, fs, resp, aux>>

\* with self.lock:
\*     if self.run_state.proc and self.run_state.proc.poll() is None:
\*         return {"ok": False, "error": "Probe is already running"}
\* A rejected call enters and leaves the `with` block within this step.
StartCheck(t) ==
    /\ pc[t] = "idle"
    /\ PidLeft
    /\ LockFree
    /\ returncode' = Reaped(run_state.proc)
    /\ IF run_state.proc # NoProc /\ poll_is_None(run_state.proc)
       THEN /\ Respond(StartRejected)
            /\ pc' = [pc EXCEPT ![t] = "idle"]
            /\ UNCHANGED <<run_state, lock, held, os, signals, restarts, crash_run, fs, resp, aux>>
       ELSE /\ lock' = t
            /\ pc' = [pc EXCEPT ![t] = "start_spawn"]
            /\ UNCHANGED <<run_state, held, result, os, signals, restarts, crash_run, fs, resp, aux>>

\* cmd = self.build_command(params); proc = subprocess.Popen(cmd, ...)
\* self.run_state = RunState(proc=proc, started_ts=time.time(), cmd=cmd)
\* return {"ok": True, "pid": proc.pid, "cmd": cmd}
StartSpawn(t) ==
    /\ pc[t] = "start_spawn"
    /\ \E params \in RunParams :
         LET cmd == build_command(params, load_shell_config(config))
             p == FreshPid
         IN /\ os' = [os EXCEPT ![p] = "alive"]
            /\ run_state' = [proc |-> p, started_ts |-> time_now, cmd |-> cmd]
            /\ Respond(StartAccepted(p, cmd))
    /\ Release
    /\ pc' = [pc EXCEPT ![t] = "idle"]
    /\ UNCHANGED <<held, returncode, signals, restarts, crash_run, fs, resp, aux>>

\* ----------------------------------------------------------------- stop_run
StopCheckKeepsRecord(t) ==
    /\ pc[t] = "idle"
    /\ LockFree
    /\ returncode' = Reaped(run_state.proc)
    /\ IF run_state.proc = NoProc \/ ~poll_is_None(run_state.proc)
       THEN /\ Respond(StopNotRunning)
            /\ pc' = [pc EXCEPT ![t] = "idle"]
            /\ UNCHANGED <<run_state, lock, held, os, signals, restarts, crash_run, fs, resp, aux>>
       ELSE /\ lock' = t
            /\ held' = [held EXCEPT ![t] = run_state.proc]
            /\ pc' = [pc EXCEPT ![t] = "stop_term"]
            /\ UNCHANGED <<run_state, result, os, signals, restarts, crash_run, fs, resp, aux>>

\* with self.lock:
\*     proc = self.run_state.proc
\*     if not proc or proc.poll() is not None:
\*         self.run_state = RunState(proc=None, started_ts=0.0, cmd=[])
\*         return {"ok": True, "stopped": False, "note": "Not running"}
StopCheck(t) ==
    /\ pc[t] = "idle"
    /\ LockFree
    /\ returncode' = Reaped(run_state.proc)
    /\ IF run_state.proc = NoProc \/ ~poll_is_None(run_state.proc)
       THEN /\ run_state' = IdleRunState
            /\ Respond(StopNotRunning)
            /\ pc' = [pc EXCEPT ![t] = "idle"]
            /\ UNCHANGED <<lock, held, os, signals, restarts, crash_run, fs, resp, aux>>
       ELSE /\ lock' = t
            /\ held' = [held EXCEPT ![t] = run_state.proc]
            /\ pc' = [pc EXCEPT ![t] = "stop_term"]
            /\ UNCHANGED <<run_state, result, os, signals, restarts, crash_run, fs, resp, aux>>

\* proc.terminate(): SIGTERM is sent, or the call raises and the outer
\* `except Exception: pass` goes on to clear the run state.
StopTerminate(t) ==
    /\ pc[t] = "stop_term"
    /\ \E raised \in BOOLEAN :
         IF raised
         THEN /\ pc' = [pc EXCEPT ![t] = "stop_clear"]
              /\ UNCHANGED signals
         ELSE /\ signals' = [signals EXCEPT ![held[t]] = Append(@, "TERM")]
              /\ pc' = [pc EXCEPT ![t] = "stop_wait_exit"]
    /\ UNCHANGED <<run_state, lock, held, result, os, returncode, restarts, crash_run, fs, resp, aux>>

StopWaitAlwaysKills(t) ==
    /\ pc[t] = "stop_wait_exit"
    /\ returncode' = Reaped(held[t])
    /\ pc' = [pc EXCEPT ![t] = "stop_kill"]
    /\ UNCHANGED <<run_state, lock, held, result, os, signals, restarts, crash_run, fs, resp, aux>>

\* try: proc.wait(timeout=2.0)  except Exception: proc.kill()
\* wait returns when the process has exited; while it is alive the grace period
\* may run out (TimeoutExpired), which leads to kill().
StopWait(t) ==
    /\ pc[t] = "stop_wait_exit"
    /\ returncode' = Reaped(held[t])
    /\ IF os[held[t]] = "exited"
       THEN pc' = [pc EXCEPT ![t] = "stop_clear"]
       ELSE pc' = [pc EXCEPT ![t] = "stop_kill"]
    /\ UNCHANGED <<run_state, lock, held, result, os, signals, restarts, crash_run, fs, resp, aux>>

\* proc.kill(): SIGKILL is sent, or the call raises into `except Exception: pass`.
StopKill(t) ==
    /\ pc[t] = "stop_kill"
    /\ \E raised \in BOOLEAN :
         IF raised
         THEN UNCHANGED signals
         ELSE signals' = [signals EXCEPT ![held[t]] = Append(@, "KILL")]
    /\ pc' = [pc EXCEPT ![t] = "stop_clear"]
    /\ UNCHANGED <<run_state, lock, held, result, os, returncode, restarts, crash_run, fs, resp, aux>>

StopClearKeepsCmd(t) ==
    /\ pc[t] = "stop_clear"
    /\ run_state' = [run_state EXCEPT !.proc = NoProc]
    /\ Respond(StopStopped)
    /\ held' = [held EXCEPT ![t] = NoProc]
    /\ Release
    /\ pc' = [pc EXCEPT ![t] = "idle"]
    /\ UNCHANGED <<os, returncode, signals, restarts, crash_run, fs, resp, aux>>

\* self.run_state = RunState(proc=None, started_ts=0.0, cmd=[])
\* return {"ok": True, "stopped": True}
StopClear(t) ==
    /\ pc[t] = "stop_clear"
    /\ run_state' = IdleRunState
    /\ Respond(StopStopped)
    /\ held' = [held EXCEPT ![t] = NoProc]
    /\ Release
    /\ pc' = [pc EXCEPT ![t] = "idle"]
    /\ UNCHANGED <<os, returncode, signals, restarts, crash_run, fs, resp, aux>>

\* --------------------------------------------------------------- get_status
StatusCheckCachedFlag(t) ==
    /\ pc[t] = "idle"
    /\ LockFree
    /\ LET running == run_state.proc # NoProc
           pid == IF running THEN run_state.proc ELSE NoProc
       IN Respond(StatusResult(running, pid, run_state.cmd))
    /\ pc' = [pc EXCEPT ![t] = "idle"]
    /\ UNCHANGED <<run_state, lock, held, os, returncode, signals, restarts, crash_run, fs, resp, aux>>

\* with self.lock:
\*     running = bool(self.run_state.proc and self.run_state.proc.poll() is None)
\*     pid = self.run_state.proc.pid if running and self.run_state.proc else None
\*     cmd = self.run_state.cmd
\* The `with` block is entered and left within this step.
StatusCheck(t) ==
    /\ pc[t] = "idle"
    /\ LockFree
    /\ returncode' = Reaped(run_state.proc)
    /\ LET running == run_state.proc # NoProc /\ poll_is_None(run_state.proc)
           pid == IF running /\ run_state.proc # NoProc THEN run_state.proc ELSE NoProc
       IN Respond(StatusResult(running, pid, run_state.cmd))
    /\ pc' = [pc EXCEPT ![t] = "idle"]
    /\ UNCHANGED <<run_state, lock, held, os, signals, restarts, crash_run, fs, resp, aux>>

\* ------------------------------------------------------------- environment
\* A probe process exits: on its own, or because of a signal it was sent.
ProcExit(p) ==
    /\ os[p] = "alive"
    /\ os' = [os EXCEPT ![p] = "exited"]
    /\ UNCHANGED <<run_state, lock, pc, held, result, returncode, signals, restarts, crash_run, fs, resp, aux>>

\* The control service goes down and is started again (main builds a new App):
\* its threads and Popen objects are gone, the lock is new, run_state is the
\* constructor's RunState(proc=None, started_ts=0.0, cmd=[]). The probe
\* processes are separate OS processes and live on.
Restart ==
    /\ restarts < MaxRestarts
    /\ restarts' = restarts + 1
    /\ crash_run' = run_state.proc
    /\ run_state' = IdleRunState
    /\ lock' = NoThread
    /\ pc' = [t \in Threads |-> "idle"]
    /\ held' = [t \in Threads |-> NoProc]
    /\ result' = NoResult
    /\ UNCHANGED <<os, returncode, signals, fs, resp, aux>>

\* ================================================================ downloads
\* File names and request paths are sequences of tokens; a token is a piece of
\* the string. The literals of the download patterns ("keenetic-maxprobe-",
\* ".tar.gz", ".sha256") and the path syntax ("/", "..") are tokens of their own,
\* and no other token contains them.
TOOL == "keenetic-maxprobe-"
TGZ == ".tar.gz"
SHA == ".sha256"
SEP == "/"
UP == ".."
STAR == "*"
TS == "20240101T000000Z"

\* fnmatch.fnmatch(name, pat) for a pattern of literals and "*": "*" matches any
\* run of tokens, "/" included.
RECURSIVE fnmatch(_, _)
fnmatch(name, pat) ==
    IF pat = <<>> THEN name = <<>>
    ELSE IF Head(pat) = STAR
         THEN fnmatch(name, Tail(pat)) \/ (name # <<>> /\ fnmatch(Tail(name), pat))
         ELSE name # <<>> /\ Head(name) = Head(pat) /\ fnmatch(Tail(name), Tail(pat))

\* ------------------------------------------------------------- file system
\* Fixed entries: /, /out (App.outbase), /tmp, /etc, /etc/secret.tar.gz,
\* /etc/passwd. Optional entries (those in fs exist):
\*   arch  /tmp/keenetic-maxprobe-tok-1-<TS>.tar.gz          regular file
\*   sha   /tmp/keenetic-maxprobe-tok-1-<TS>.tar.gz.sha256   regular file
\*   junk  /tmp/keenetic-maxprobe-junk.tar.gz                regular file
\*   work  /tmp/keenetic-maxprobe-tok-1-<TS>.work            directory
\*   link  /out/keenetic-maxprobe-ln.tar.gz                  symlink to /etc/secret.tar.gz
\*   dirz  /out/keenetic-maxprobe-d.tar.gz                   directory
\*   work2 /out/keenetic-maxprobe-tok-2-<TS>.work            directory
NoNode == "none"
FixedNodes == {"root", "out", "tmp", "etc", "secret", "passwd"}
OptionalNodes == {"arch", "sha", "junk", "work", "link", "dirz", "work2"}
Nodes == FixedNodes \cup OptionalNodes

RunId == <<TOOL, "tok", "-", "1", "-", TS>>

EntryName(n) ==
    CASE n = "root" -> <<>>
      [] n = "out" -> <<"out">>
      [] n = "tmp" -> <<"tmp">>
      [] n = "etc" -> <<"etc">>
      [] n = "secret" -> <<"secret", TGZ>>
      [] n = "passwd" -> <<"passwd">>
      [] n = "arch" -> RunId \o <<TGZ>>
      [] n = "sha" -> RunId \o <<TGZ, SHA>>
      [] n = "junk" -> <<TOOL, "junk", TGZ>>
      [] n = "work" -> RunId \o <<".work">>
      [] n = "link" -> <<TOOL, "ln", TGZ>>
      [] n = "dirz" -> <<TOOL, "d", TGZ>>
      [] n = "work2" -> <<TOOL, "tok", "-", "2", "-", TS, ".work">>

Parent(n) ==
    CASE n \in {"root", "out", "tmp", "etc"} -> "root"
      [] n \in {"secret", "passwd"} -> "etc"
      [] n \in {"arch", "sha", "junk", "work"} -> "tmp"
      [] n \in {"link", "dirz", "work2"} -> "out"

Kind(n) ==
    CASE n \in {"root", "out", "tmp", "etc", "work", "dirz", "work2"} -> "dir"
      [] n = "link" -> "symlink"
      [] OTHER -> "file"

LinkTarget(n) == IF n = "link" THEN "secret" ELSE n

Exists(n) == n \in FixedNodes \/ n \in fs

\* The components of a path: the token runs between "/" tokens.
RECURSIVE Components(_)
Components(path) ==
    IF path = <<>> THEN <<<<>>>>
    ELSE LET rest == Components(Tail(path))
         IN IF Head(path) = SEP
            THEN <<<<>>>> \o rest
            ELSE <<<<Head(path)>> \o Head(rest)>> \o Tail(rest)

\* One step of path resolution in directory d, symlinks followed.
Lookup(d, comp) ==
    IF d = NoNode \/ Kind(d) # "dir" THEN NoNode
    ELSE IF comp = <<>> \/ comp = <<".">> THEN d
    ELSE IF comp = <<UP>> THEN Parent(d)
    ELSE LET hits == {n \in Nodes : Exists(n) /\ n # "root" /\ Parent(n) = d /\ EntryName(n) = comp}
         IN IF hits = {} THEN NoNode ELSE LinkTarget(CHOOSE n \in hits : TRUE)

\* The node `base / name` resolves to (what stat() sees), or NoNode.
RECURSIVE Walk(_, _)
Walk(d, comps) ==
    IF comps = <<>> THEN d ELSE Walk(Lookup(d, Head(comps)), Tail(comps))

Resolve(base, name) == Walk(base, Components(name))

\* App.candidate_outbases(): self.outbase, then the likely locations, those
\* that exist and are directories (here /out and /tmp).
candidate_outbases == <<"out", "tmp">>

\* ------------------------------------------------------------------ listings
MaxMtime == 2      \* modification times are 1..MaxMtime

\* The entries of a base directory.
BaseEntries(base) == {n \in OptionalNodes : n \in fs /\ Parent(n) = base}

\* Path.glob iterates a directory in the order the file system gives, which is
\* arbitrary but fixed for a given content of the directory: here by NodeRank,
\* forwards or backwards with the number of entries.
NodeRank(n) ==
    CASE n = "junk" -> 1 [] n = "work" -> 2 [] n = "sha" -> 3 [] n = "arch" -> 4
      [] n = "dirz" -> 5 [] n = "work2" -> 6 [] n = "link" -> 7
RECURSIVE Ranked(_)
Ranked(S) ==
    IF S = {} THEN <<>>
    ELSE LET n == CHOOSE x \in S : \A y \in S : NodeRank(x) <= NodeRank(y)
         IN <<n>> \o Ranked(S \ {n})
Reverse(seq) == [i \in 1..Len(seq) |-> seq[Len(seq) + 1 - i]]
scandir(base) ==
    LET seq == Ranked(BaseEntries(base))
    IN IF Len(seq) % 2 = 0 THEN seq ELSE Reverse(seq)

glob_all(base, pat) == scandir(base)

\* base.glob(pat): the entries of base whose name matches pat
glob(base, pat) == SelectSeq(scandir(base), LAMBDA n : fnmatch(EntryName(n), pat))

\* p.is_file(), p.is_dir(), p.stat().st_mtime: symlinks are followed (the
\* mtime kept for a symlink is its target's)
is_file(n) == Kind(LinkTarget(n)) = "file"
is_dir(n) == Kind(LinkTarget(n)) = "dir"
st_mtime(n) == mtime[n]

\* {"name": p.name, "path": str(p), "base": str(base), "mtime": st.st_mtime}
\* (size and size_h play no part here)
ArchiveEntry(n) == [name |-> EntryName(n), path |-> n, base |-> Parent(n), mtime |-> st_mtime(n)]

sort_none(seq) == seq

\* list.sort(key=mtime, reverse=True): stable, equal keys keep their order
RECURSIVE InsertDesc(_, _)
InsertDesc(sorted, e) ==
    IF sorted = <<>> THEN <<e>>
    ELSE IF Head(sorted).mtime >= e.mtime
         THEN <<Head(sorted)>> \o InsertDesc(Tail(sorted), e)
         ELSE <<e>> \o sorted
RECURSIVE SortFrom(_, _)
SortFrom(sorted, rest) ==
    IF rest = <<>> THEN sorted ELSE SortFrom(InsertDesc(sorted, Head(rest)), Tail(rest))
sort_desc(seq) == SortFrom(<<>>, seq)

Entries(nodes) == [i \in 1..Len(nodes) |-> ArchiveEntry(nodes[i])]
\* for base in self.candidate_outbases(): ... what is found in each base, joined
RECURSIVE Concat(_)
Concat(seqs) == IF seqs = <<>> THEN <<>> ELSE Head(seqs) \o Concat(Tail(seqs))
Bases == 1..Len(candidate_outbases)

\* App.list_archives()
list_archives ==
    LET Found(base) == Entries(glob(base, <<TOOL, STAR, TGZ>>))
                         \o Entries(glob(base, <<TOOL, STAR, TGZ, SHA>>))
    IN sort_desc(Concat([i \in Bases |-> Found(candidate_outbases[i])]))

\* App.find_latest_archive(): the path, or NoNode for None
find_latest_archive ==
    LET Found(base) == Entries(SelectSeq(glob(base, <<TOOL, STAR, TGZ>>), is_file))
        archives == sort_desc(Concat([i \in Bases |-> Found(candidate_outbases[i])]))
    IN IF archives = <<>> THEN NoNode ELSE archives[1].path

\* App.find_latest_workdir(): the path, or NoNode for None
find_latest_workdir ==
    LET Found(base) == Entries(SelectSeq(glob(base, <<TOOL, STAR, ".work">>), is_dir))
        workdirs == sort_desc(Concat([i \in Bases |-> Found(candidate_outbases[i])]))
    IN IF workdirs = <<>> THEN NoNode ELSE workdirs[1].path

NoListing == [pc |-> "none", archives |-> <<>>, workdir |-> NoNode, archive |-> NoNode]

\* The three listings are asked for.
List ==
    /\ listing' = [pc |-> "done", archives |-> list_archives,
                   workdir |-> find_latest_workdir, archive |-> find_latest_archive]
    /\ UNCHANGED <<ctl, fs, resp, app_token, http, tailv, mtime, statv, buildv, persistv, pipe, saved, static>>

\* An entry is written to: its modification time changes.
Touch ==
    /\ \E n \in fs, m \in 1..MaxMtime : mtime' = [mtime EXCEPT ![n] = m]
    /\ listing' = NoListing
    /\ UNCHANGED <<ctl, fs, resp, app_token, http, tailv, statv, buildv, persistv, pipe, saved, static>>

\* ------------------------------------------------ read_progress, get_status
MaxMeta == 2            \* the meta files read_progress reads, of its five
STATUS_ARCHIVES == 50   \* self.list_archives()[:50]

\* meta/phase.txt, ... of a work directory, in the order read_progress reads them
MetaFiles == <<"phase.txt", "progress.txt", "started_utc.txt", "opkg_storage_hint.txt", "outbase.txt">>
ProgressFiles == {MetaFiles[i] : i \in 1..MaxMeta}
SUMMARY == "summary.json"
\* The probe writes its files into the work directory "work"; "work2" is a
\* work directory left empty.
MetaExists(workdir, f) == workdir = "work" /\ workdir \in fs /\ f \in meta

\* seq[:n]
FirstN(seq, n) == SubSeq(seq, 1, Min(n, Len(seq)))

\* What the last call answered; void when the files have changed since it began.
Void == [ok |-> FALSE]
NoStat == [pc |-> "idle", workdir |-> NoNode, i |-> 0, progress |-> <<>>, summary |-> "",
           archive |-> NoNode, nread |-> 0, running |-> FALSE, pid |-> NoProc, cmd |-> <<>>, proc |-> NoProc,
           dirty |-> FALSE, last |-> Void, last_proc |-> NoProc, repeat |-> FALSE]

\* The files change under a call: its answer is not one to compare with.
Dirtied == [stat EXCEPT !.dirty = TRUE, !.last = Void, !.repeat = FALSE]

\* The probe (or a cleanup) creates or removes a work directory, the archive,
\* or a meta file.
StatusNodes == {"work", "work2", "arch", "junk"}
ProbeWrites ==
    /\ \/ /\ \E n \in StatusNodes \ fs : fs' = fs \cup {n}
          /\ UNCHANGED meta
       \/ /\ \E f \in (ProgressFiles \cup {SUMMARY}) \ meta : meta' = meta \cup {f}
          /\ UNCHANGED fs
    /\ stat' = Dirtied
    /\ listing' = NoListing
    /\ UNCHANGED <<ctl, resp, app_token, http, tailv, mtime, buildv, persistv, pipe, saved, static>>

ProbeRemoves ==
    /\ \/ /\ \E n \in StatusNodes \cap fs : fs' = fs \ {n}
          /\ UNCHANGED meta
       \/ /\ \E f \in meta : meta' = meta \ {f}
          /\ UNCHANGED fs
    /\ stat' = Dirtied
    /\ listing' = NoListing
    /\ UNCHANGED <<ctl, resp, app_token, http, tailv, mtime, buildv, persistv, pipe, saved, static>>

\* After the file MetaFiles[i]: the next file, or summary.json and the lock.
\*   summ = latest / "analysis" / "summary.json"
\*   if summ.exists(): try: ... json.loads(summ.read_text(...)) except: None
AfterFile(st) ==
    IF st.i < MaxMeta
    THEN [st EXCEPT !.pc = "exists", !.i = st.i + 1]
    ELSE [st EXCEPT !.pc = "lock",
                    !.summary = IF MetaExists(st.workdir, SUMMARY) THEN "json" ELSE ""]

\* The member ./analysis/summary.json of an archive: the one of "arch" is
\* larger than the budget of the read, the one of "junk" fits, others have none.
SummaryBytes == 2       \* max_bytes=512_000 of the summary read, scaled
SummaryMember(n) ==
    CASE n = "arch" -> [i \in 1..(SummaryBytes + 1) |-> "a"]
      [] n = "junk" -> <<"a">>
      [] OTHER -> <<>>
\* App.extract_member_text(archive, member, max_bytes=...): data = f.read(max_bytes)
extract_member_text(archive, max_bytes) == decode(FirstBytes(SummaryMember(archive), max_bytes))
\* if txt: try: json.loads(txt) except Exception: None   ("" when txt is empty:
\* the key is left out); a summary cut short does not parse
json_loads(txt, archive) ==
    IF txt = <<>> THEN ""
    ELSE IF txt = decode(SummaryMember(archive)) THEN "json" ELSE "null"

GetStatusLatestMixed ==
    /\ stat.pc \in {"idle", "raised"}
    /\ LET latest == find_latest_workdir
           arch == find_latest_archive
           txt == IF arch = NoNode THEN <<>> ELSE extract_member_text(arch, SummaryBytes)
           st == [stat EXCEPT !.workdir = latest, !.i = 0, !.progress = <<>>,
                              !.archive = arch, !.nread = Len(txt),
                              !.summary = json_loads(txt, arch), !.dirty = FALSE]
       IN stat' = IF latest # NoNode
                  THEN [st EXCEPT !.pc = "exists", !.i = 1]
                  ELSE [st EXCEPT !.pc = "lock"]
    /\ UNCHANGED <<ctl, fs, resp, app_token, http, tailv, listv, meta, buildv, persistv, pipe, saved, static>>

\* latest = self.find_latest_workdir(); without one, the latest archive and
\* the summary.json extracted from it.
GetStatusLatest ==
    /\ stat.pc \in {"idle", "raised"}
    /\ LET latest == find_latest_workdir
           arch == find_latest_archive
           txt == IF arch = NoNode THEN <<>> ELSE extract_member_text(arch, SummaryBytes)
           st == [stat EXCEPT !.workdir = latest, !.i = 0, !.progress = <<>>, !.summary = "",
                              !.archive = NoNode, !.nread = 0, !.dirty = FALSE]
       IN stat' = IF latest # NoNode
                  THEN [st EXCEPT !.pc = "exists", !.i = 1]
                  ELSE [st EXCEPT !.pc = "lock", !.archive = arch, !.nread = Len(txt),
                                  !.summary = json_loads(txt, arch)]
    /\ UNCHANGED <<ctl, fs, resp, app_token, http, tailv, listv, meta, buildv, persistv, pipe, saved, static>>

\* read_progress, the test of one file:  ... if (meta / "phase.txt").exists() else ""
GetStatusExists ==
    /\ stat.pc = "exists"
    /\ stat' = IF MetaExists(stat.workdir, MetaFiles[stat.i])
               THEN [stat EXCEPT !.pc = "read"]
               ELSE AfterFile([stat EXCEPT !.progress = Append(@, "")])
    /\ UNCHANGED <<ctl, fs, resp, app_token, http, tailv, listv, meta, buildv, persistv, pipe, saved, static>>

\* read_progress, the read of one file:  (meta / "phase.txt").read_text(...).strip()
\* It raises FileNotFoundError when the file is gone, and nothing catches it.
GetStatusRead ==
    /\ stat.pc = "read"
    /\ stat' = IF MetaExists(stat.workdir, MetaFiles[stat.i])
               THEN AfterFile([stat EXCEPT !.progress = Append(@, MetaFiles[stat.i])])
               ELSE [stat EXCEPT !.pc = "raised"]
    /\ UNCHANGED <<ctl, fs, resp, app_token, http, tailv, listv, meta, buildv, persistv, pipe, saved, static>>

GetStatusLockClears ==
    /\ stat.pc = "lock"
    /\ LockFree
    /\ run_state' = IdleRunState
    /\ stat' = [stat EXCEPT !.pc = "list", !.proc = NoProc]
    /\ UNCHANGED <<lock, pc, held, result, os, returncode, signals, restarts, crash_run, fs, resp,
                   app_token, http, tailv, listv, meta, buildv, persistv, pipe, saved, static>>

\* with self.lock: running = ...; pid = ...; cmd = self.run_state.cmd
GetStatusLock ==
    /\ stat.pc = "lock"
    /\ LockFree
    /\ returncode' = Reaped(run_state.proc)
    /\ LET running == run_state.proc # NoProc /\ poll_is_None(run_state.proc)
       IN stat' = [stat EXCEPT !.pc = "list", !.running = running,
                               !.pid = IF running THEN run_state.proc ELSE NoProc,
                               !.cmd = run_state.cmd, !.proc = run_state.proc]
    /\ UNCHANGED <<run_state, lock, pc, held, result, os, signals, restarts, crash_run, fs, resp,
                   app_token, http, tailv, listv, meta, buildv, persistv, pipe, saved, static>>

\* return {"ok": True, "running": ..., "latest": latest_info,
\*         "archives": self.list_archives()[:50], ...}
StatusAnswer ==
    [ok |-> TRUE, running |-> stat.running, pid |-> stat.pid, cmd |-> stat.cmd,
     latest |-> [workdir |-> stat.workdir, progress |-> stat.progress,
                 archive |-> stat.archive, summary |-> stat.summary],
     archives |-> FirstN(list_archives, STATUS_ARCHIVES)]

GetStatusReturn ==
    /\ stat.pc = "list"
    /\ stat' = [stat EXCEPT !.pc = "idle",
                            !.last = IF stat.dirty THEN Void ELSE StatusAnswer,
                            !.last_proc = stat.proc,
                            !.repeat = ~stat.dirty /\ stat.last # Void]
    /\ UNCHANGED <<ctl, fs, resp, app_token, http, tailv, listv, meta, buildv, persistv, pipe, saved, static>>

\* ----------------------------------------------------------- serve_download
NoResponse == [name |-> <<>>, status |-> 0, body |-> "", opened |-> NoNode, lookups |-> 0]

\* self._text(text, status)
TextResponse(name, text, status, lookups) ==
    [name |-> name, status |-> status, body |-> text, opened |-> NoNode, lookups |-> lookups]

DownloadPatterns == {<<TOOL, STAR, TGZ>>, <<TOOL, STAR, TGZ, SHA>>}

NameAllowedPrefixOnly(name) == fnmatch(name, <<TOOL, STAR>>)

\* fnmatch.fnmatch(name, "keenetic-maxprobe-*.tar.gz") or
\* fnmatch.fnmatch(name, "keenetic-maxprobe-*.tar.gz.sha256")
NameAllowed(name) == \E pat \in DownloadPatterns : fnmatch(name, pat)

\* for base in app.candidate_outbases(): p = base / name
\*     if p.exists() and p.is_file(): target = p; break
\* The index of the first base under which the name is a regular file, or 0.
RECURSIVE FindTarget(_, _)
FindTarget(name, i) ==
    IF i > Len(candidate_outbases) THEN 0
    ELSE LET n == Resolve(candidate_outbases[i], name)
         IN IF n # NoNode /\ Kind(n) = "file" THEN i ELSE FindTarget(name, i + 1)

\* Handler.serve_download(name): the response, with the node whose bytes were
\* read (opened) and the number of `base / name` paths that were tried (lookups).
serve_download(name) ==
    IF ~NameAllowed(name)
    THEN TextResponse(name, "Forbidden", 403, 0)
    ELSE LET i == FindTarget(name, 1)
         IN IF i = 0
            THEN TextResponse(name, "Not found", 404, Len(candidate_outbases))
            ELSE LET n == Resolve(candidate_outbases[i], name)
                 IN [name |-> name, status |-> 200, body |-> n, opened |-> n, lookups |-> i]

\* The names GET /download/<name> is called with.
DownloadNames ==
    { EntryName("arch"), EntryName("sha"), EntryName("junk"), EntryName("work"),
      EntryName("link"), EntryName("dirz"),
      <<TOOL, "x", "-", "1", "-", TS, TGZ>>,
      EntryName("arch") \o <<".sh">>,
      <<UP, SEP, UP, SEP, "etc", SEP, "passwd">>,
      <<UP, SEP, "etc", SEP, "secret", TGZ>>,
      EntryName("work") \o <<SEP, UP, SEP, UP, SEP, "etc", SEP, "secret", TGZ>>,
      EntryName("work") \o <<SEP, UP, SEP>> \o EntryName("arch"),
      <<TOOL, "nodir", SEP, UP, SEP, UP, SEP, "etc", SEP, "secret", TGZ>> }

\* GET /download/<name> (token check passed): resp keeps the last two responses.
Download ==
    /\ \E name \in DownloadNames :
         resp' = <<serve_download(name)>> \o (IF resp = <<>> THEN <<>> ELSE <<Head(resp)>>)
    /\ UNCHANGED <<run_state, lock, pc, held, result, os, returncode, signals, restarts, crash_run, fs, aux>>

\* The probe, a cleanup or another local user creates or removes an entry.
CreateEntry ==
    /\ \E n \in OptionalNodes \ fs : fs' = fs \cup {n}
    /\ listing' = NoListing
    /\ UNCHANGED <<ctl, resp, app_token, http, tailv, mtime, statv, buildv, persistv, pipe, saved, static>>

RemoveEntry ==
    /\ \E n \in fs : /\ fs' = fs \ {n}
                     /\ mtime' = [mtime EXCEPT ![n] = 1]   \* nothing left to stat
    /\ listing' = NoListing
    /\ UNCHANGED <<ctl, resp, app_token, http, tailv, statv, buildv, persistv, pipe, saved, static>>

\* ------------------------------------------------------------- serve_static
MaxRel == 3        \* the pieces of the path asked for under /static/

\* A path is a sequence of pieces: "/", "..", ".", "~", a backslash and names.
DOT == "."
TILDE == "~"
BACKSLASH == "\\"
RelPieces == {SEP, UP, DOT, TILDE, BACKSLASH, "index.html", "css", "app.css", "server.py", ".hidden"}

\* The directory of server.py ("app") with server.py and static/ in it, and
\* the files of static/.
StaticParent ==
    [app |-> "app", static |-> "app"] @@ ("server.py" :> "app") @@ ("index.html" :> "static")
        @@ (".hidden" :> "static") @@ ("css" :> "static") @@ ("app.css" :> "css")
StaticDirs == {"app", "static", "css"}
\* app.static_root
static_root == "static"

\* One step of the path walk the OS makes for p.exists(), p.is_file() and
\* p.read_bytes(); pathlib has dropped the empty and the "." components.
StaticLookup(d, comp) ==
    IF d = NoNode \/ d \notin StaticDirs THEN NoNode
    ELSE IF comp = <<>> \/ comp = <<DOT>> THEN d
    ELSE IF comp = <<UP>> \/ comp = <<DOT, DOT>> THEN StaticParent[d]
    ELSE IF Len(comp) = 1 /\ comp[1] \in DOMAIN StaticParent /\ comp[1] # d /\ StaticParent[comp[1]] = d
         THEN comp[1]
    ELSE NoNode
RECURSIVE StaticWalk(_, _)
StaticWalk(d, comps) ==
    IF comps = <<>> THEN d ELSE StaticWalk(StaticLookup(d, Head(comps)), Tail(comps))

\* rel.lstrip("/")
RECURSIVE lstrip_slash(_)
lstrip_slash(rel) == IF rel # <<>> /\ Head(rel) = SEP THEN lstrip_slash(Tail(rel)) ELSE rel

\* ".." in rel or rel.startswith(".") or rel.startswith("~") or "\\" in rel
any_path(rel) == FALSE
bad_path(rel) ==
    \/ \E i \in 1..Len(rel) : rel[i] = UP \/ (rel[i] = DOT /\ i < Len(rel) /\ rel[i + 1] = DOT)
    \/ rel # <<>> /\ rel[1] \in {DOT, UP, ".hidden"}
    \/ rel # <<>> /\ rel[1] = TILDE
    \/ \E i \in 1..Len(rel) : rel[i] = BACKSLASH

\* Handler.serve_static(rel): the status and text of the answer and the file
\* read for it
serve_static(rel0) ==
    LET rel == lstrip_slash(rel0)
        p == StaticWalk(static_root, Components(rel))
    IN IF bad_path(rel) THEN [status |-> 400, body |-> "Bad path", read |-> NoNode]
       ELSE IF p = NoNode \/ p \in StaticDirs THEN [status |-> 404, body |-> "Not found", read |-> NoNode]
       ELSE [status |-> 200, body |-> "file", read |-> p]

NoStatic == [pc |-> "path", route |-> "/static/", rel |-> <<>>, handler |-> "none",
             status |-> 0, body |-> "", read |-> NoNode]
\* What a request for a static file may carry as credentials.
StaticCredentials == {<<ABSENT, <<>>, <<>>>>, <<"wrong", <<>>, <<>>>>, <<ABSENT, <<"Bearer", " ">>, <<>>>>}

\* The client composes the path of its next GET /static/<rel>.
StaticPath ==
    /\ \E piece \in RelPieces :
         IF static.pc = "done" THEN static' = [NoStatic EXCEPT !.rel = <<piece>>]
         ELSE Len(static.rel) < MaxRel /\ static' = [static EXCEPT !.rel = Append(@, piece)]
    /\ UNCHANGED <<ctl, fs, resp, app_token, http, tailv, listv, statv, buildv, persistv, pipe, saved>>

\* do_GET for the route and what the handler it chose answers
StaticAnswer(route, rel, c) ==
    LET out == do_GET(<<route, "">>, c[1], c[2], c[3])
        r == serve_static(rel)
    IN IF out.handler = "serve_static"
       THEN [pc |-> "done", route |-> route, rel |-> rel, handler |-> out.handler,
             status |-> r.status, body |-> r.body, read |-> r.read]
       ELSE [pc |-> "done", route |-> route, rel |-> rel, handler |-> out.handler,
             status |-> out.status, body |-> out.body, read |-> NoNode]

\* GET /static/<rel>: path[len("/static/"):] goes to serve_static
StaticGet ==
    /\ static.pc = "path"
    /\ \E c \in StaticCredentials : static' = StaticAnswer("/static/", static.rel, c)
    /\ UNCHANGED <<ctl, fs, resp, app_token, http, tailv, listv, statv, buildv, persistv, pipe, saved>>

\* GET /: serve_static("index.html")
StaticIndex ==
    /\ static.pc = "path" /\ static.rel = <<>>
    /\ \E c \in StaticCredentials : static' = StaticAnswer("/", <<"index.html">>, c)
    /\ UNCHANGED <<ctl, fs, resp, app_token, http, tailv, listv, statv, buildv, persistv, pipe, saved>>

\* ---------------------------------------- POST /api/config, save_shell_config
MaxSaves == 2      \* the config updates that follow one another

\* DEFAULTS.keys(), in the order of the dict
DefaultKeys ==
    <<"LANG_UI", "PROFILE", "MODE", "COLLECTORS", "CUSTOM_COLLECTORS", "OUTBASE_POLICY",
      "OUTBASE_OVERRIDE", "CLEAN_OLD", "CLEAN_TMP", "DEBUG", "SPINNER", "YES", "NO_INSTALL",
      "DEPS_LEVEL", "DEPS_MODE", "MAX_CPU", "MAX_MEM", "JOBS", "WEB_BIND", "WEB_PORT",
      "WEB_TOKEN">>

\* int(s) of the strings the bodies hold; int_raises(s) when it raises
\* ValueError. int() accepts surrounding whitespace and a sign.
int_raises(v) == v \notin {"0", "80", " 80 ", "65535", "65536", "-1"}
int(v) == CASE v = "0" -> 0 [] v \in {"80", " 80 "} -> 80 [] v = "65535" -> 65535
            [] v = "65536" -> 65536 [] v = "-1" -> 0 - 1

\* for k in DEFAULTS.keys(): if k in body: updates[k] = str(body[k])
known_updates(body) == [k \in DOMAIN DEFAULTS \cap DOMAIN body |-> str(body[k])]

not_validated(updates) == updates
\* "Validate some": WEB_BIND and WEB_PORT
validated(updates) ==
    [k \in DOMAIN updates |->
        IF k = "WEB_BIND" /\ updates[k] \notin {"127.0.0.1", "0.0.0.0"} THEN DEFAULTS["WEB_BIND"]
        ELSE IF k = "WEB_PORT" /\ (int_raises(updates[k]) \/ ~(0 <= int(updates[k]) /\ int(updates[k]) <= 65535))
             THEN DEFAULTS["WEB_PORT"]
        ELSE updates[k]]

\* save_shell_config(path, updates); lines = <<>> is a config file that does
\* not exist.
save_shell_config(lines, updates) ==
    LET existing_lines == IF lines = <<>> THEN << <<"#">>, <<>> >> ELSE lines
        matched(line) == Len(line) >= 2 /\ line[1] \in DOMAIN updates
        seen_keys == {existing_lines[i][1] : i \in {j \in 1..Len(existing_lines) : matched(existing_lines[j])}}
        out_lines == [i \in 1..Len(existing_lines) |->
                        IF matched(existing_lines[i])
                        THEN <<existing_lines[i][1], DQ, updates[existing_lines[i][1]], DQ>>
                        ELSE existing_lines[i]]
        new_keys == SelectSeq(DefaultKeys, LAMBDA k : k \in DOMAIN updates /\ k \notin seen_keys)
    IN out_lines \o [i \in 1..Len(new_keys) |-> <<new_keys[i], DQ, updates[new_keys[i]], DQ>>]

\* The bodies of POST /api/config: not a JSON object, or an object.
NOT_A_DICT == "<not a dict>" :> ""
BindValues == {"127.0.0.1", "0.0.0.0", "10.0.0.1", ""}
PortValues == {"0", "80", " 80 ", "65535", "65536", "-1", "abc", "", JTRUE}
ConfigBodies ==
    {NOT_A_DICT, <<>>, "EVIL" :> "1"}
        \cup {"WEB_BIND" :> b : b \in BindValues}
        \cup {"WEB_PORT" :> v : v \in PortValues}
        \cup {("WEB_BIND" :> "10.0.0.1") @@ ("WEB_PORT" :> v) @@ ("EVIL" :> "1") : v \in {"80", "abc"}}
        \cup {("MODE" :> m) @@ ("EVIL" :> "1") : m \in {"safe", "bogus"}}


\* POST /api/config with a body, at most MaxSaves times on a config file
\* written by hand.
ApiConfig ==
    /\ saved.n < MaxSaves
    /\ \E body \in ConfigBodies :
         IF body = NOT_A_DICT
         THEN /\ saved' = [pc |-> "done", n |-> saved.n + 1, body |-> body, before |-> config,
                           ok |-> FALSE, status |-> 400]
              /\ UNCHANGED config
         ELSE /\ config' = save_shell_config(config, validated(known_updates(body)))
              /\ saved' = [pc |-> "done", n |-> saved.n + 1, body |-> body, before |-> config,
                           ok |-> TRUE, status |-> 200]
    /\ built' = NoBuilt
    /\ UNCHANGED <<ctl, fs, resp, app_token, http, tailv, listv, statv, persistv, pipe, static>>

\* ------------------------------------------------- the probe's output pipe
PipeBuf == 2       \* the bytes a pipe holds before a write to it blocks

\* subprocess.Popen(cmd, stdout=subprocess.PIPE, stderr=subprocess.STDOUT):
\* proc.stdout is the read end of the pipe; the service holds it open as long
\* as it holds the Popen object, in run_state or in a stop_run in progress. No
\* code reads from it or closes it.
PipeHeld(p) == run_state.proc = p \/ \E t \in Threads : held[t] = p
\* The probe's next write to its stdout or stderr blocks.
Blocked(p) == os[p] = "alive" /\ pipe[p] = PipeBuf

\* The probe writes a byte of output.
ProbeOutput(p) ==
    /\ os[p] = "alive"
    /\ pipe[p] < PipeBuf
    /\ pipe' = [pipe EXCEPT ![p] = @ + 1]
    /\ UNCHANGED <<ctl, fs, resp, app_token, http, tailv, listv, statv, buildv, persistv, saved, static>>

\* The probe ends: on its own when it is not blocked, or by a signal.
ProbeEnds(p) == (~Blocked(p) \/ signals[p] # <<>>) /\ ProcExit(p)

\* ------------------------------------------- _pick_state_dir, state files
Chunks == 2        \* the pieces a write_text call writes a content in

\* state_dir / "keenetic-maxprobe-webui.port", ".url", ".bind", in the order
\* main writes them; a path is its stem and its suffix.
STEM == "keenetic-maxprobe-webui"
StateFiles == << <<STEM, ".port">>, <<STEM, ".url">>, <<STEM, ".bind">> >>
write_in_place(path) == path
\* path.with_suffix(path.suffix + ".tmp")
with_suffix_tmp(path) == SubSeq(path, 1, Len(path) - 1) \o <<path[Len(path)], ".tmp">>
StatePaths == {StateFiles[i] : i \in 1..Len(StateFiles)}
AllPaths == StatePaths \cup {with_suffix_tmp(f) : f \in StatePaths}

\* A file that does not exist; the content the n-th start of the service
\* writes (port, url and bind of that start), piece by piece.
MISSING == << <<"missing", 0>> >>
Content(n) == [k \in 1..Chunks |-> <<"piece", n * Chunks + k>>]

\* _pick_state_dir(cli_value): the first candidate whose mkdir succeeds and
\* that is a directory, else "."; unusable are the directories it fails for.
StateDirCandidates == <<"/opt/var/run", "/var/run", "/tmp">>
CliStateDirs == {"", "/opt/state"}
RECURSIVE FirstUsable(_, _)
FirstUsable(cand, unusable) ==
    IF cand = <<>> THEN "."
    ELSE IF Head(cand) \notin unusable THEN Head(cand)
    ELSE FirstUsable(Tail(cand), unusable)
_pick_state_dir(cli_value, unusable) ==
    FirstUsable((IF cli_value # "" THEN <<cli_value>> ELSE <<>>) \o StateDirCandidates, unusable)

NoBoot == [n |-> 0, pc |-> "pick", i |-> 0, dir |-> "", failed |-> FALSE]
NotSeen == [path |-> <<>>, content |-> <<>>]

\* main() has come to serve_forever().
Serving == boot.n = restarts /\ boot.pc = "serving"

\* After a restart of the service main() runs from its beginning.
MainStart ==
    /\ boot.n # restarts
    /\ boot' = [NoBoot EXCEPT !.n = restarts]
    /\ seen' = NotSeen
    /\ UNCHANGED <<ctl, fs, resp, app_token, http, tailv, listv, statv, buildv, files, pipe, saved, static>>

\* state_dir = _pick_state_dir(args.state_dir)
PickStateDir ==
    /\ boot.n = restarts /\ boot.pc = "pick"
    /\ \E cli_value \in CliStateDirs :
       \E unusable \in SUBSET ({cli_value} \cup {StateDirCandidates[i] : i \in 1..Len(StateDirCandidates)}) :
         boot' = [boot EXCEPT !.pc = "open", !.i = 1, !.dir = _pick_state_dir(cli_value, unusable)]
    /\ seen' = NotSeen
    /\ UNCHANGED <<ctl, fs, resp, app_token, http, tailv, listv, statv, buildv, files, pipe, saved, static>>

\* After the file StateFiles[i], written or given up: the next one, or
\* httpd.serve_forever().
NextFile(b) ==
    IF b.i < Len(StateFiles) THEN [b EXCEPT !.pc = "open", !.i = b.i + 1]
    ELSE [b EXCEPT !.pc = "serving"]
Fatal(b) == [b EXCEPT !.pc = "dead", !.failed = TRUE]
\* except Exception: pass
GaveUp(b) == NextFile([b EXCEPT !.failed = TRUE])

\* _write_text_atomic: path.parent.mkdir(...); tmp = ...; tmp.write_text opens
\* the .tmp file (created or truncated), or one of these raises.
TmpOpen ==
    /\ boot.n = restarts /\ boot.pc = "open"
    /\ \E raised \in BOOLEAN :
         IF raised
         THEN boot' = GaveUp(boot) /\ UNCHANGED files
         ELSE /\ files' = [files EXCEPT ![with_suffix_tmp(StateFiles[boot.i])] = <<>>]
              /\ boot' = [boot EXCEPT !.pc = "write"]
    /\ seen' = NotSeen
    /\ UNCHANGED <<ctl, fs, resp, app_token, http, tailv, listv, statv, buildv, pipe, saved, static>>

\* tmp.write_text(content): the next piece reaches the .tmp file, or the write
\* raises (storage full or gone) and leaves it as it is.
TmpWrite ==
    /\ boot.n = restarts /\ boot.pc = "write"
    /\ LET tmp == with_suffix_tmp(StateFiles[boot.i])
           k == Len(files[tmp]) + 1
       IN \E raised \in BOOLEAN :
            IF raised
            THEN boot' = GaveUp(boot) /\ UNCHANGED files
            ELSE /\ files' = [files EXCEPT ![tmp] = Append(@, Content(boot.n)[k])]
                 /\ boot' = IF k = Chunks THEN [boot EXCEPT !.pc = "replace"] ELSE boot
    /\ seen' = NotSeen
    /\ UNCHANGED <<ctl, fs, resp, app_token, http, tailv, listv, statv, buildv, pipe, saved, static>>

\* tmp.replace(path): the rename puts the .tmp file in the place of path in
\* one step, or raises.
TmpReplace ==
    /\ boot.n = restarts /\ boot.pc = "replace"
    /\ LET path == StateFiles[boot.i]
           tmp == with_suffix_tmp(path)
       IN \E raised \in BOOLEAN :
            IF raised
            THEN boot' = GaveUp(boot) /\ UNCHANGED files
            ELSE /\ files' = IF tmp = path THEN files
                             ELSE [files EXCEPT ![path] = files[tmp], ![tmp] = MISSING]
                 /\ boot' = NextFile(boot)
    /\ seen' = NotSeen
    /\ UNCHANGED <<ctl, fs, resp, app_token, http, tailv, listv, statv, buildv, pipe, saved, static>>

\* Another program (the launcher script) reads a state file.
ReadStateFile ==
    /\ \E path \in StatePaths : seen' = [path |-> path, content |-> files[path]]
    /\ UNCHANGED <<ctl, fs, resp, app_token, http, tailv, listv, statv, buildv, files, boot, pipe, saved, static>>

\* ------------------------------------------------------------ specification
InitRun ==
    /\ run_state = IdleRunState
    /\ lock = NoThread
    /\ pc = [t \in Threads |-> "idle"]
    /\ held = [t \in Threads |-> NoProc]
    /\ result = NoResult
    /\ os = [p \in Pids |-> "unborn"]
    /\ returncode = [p \in Pids |-> FALSE]
    /\ signals = [p \in Pids |-> <<>>]
    /\ restarts = 0
    /\ crash_run = NoProc

InitDownload ==
    /\ fs = {}
    /\ resp = <<>>

InitAux ==
    /\ app_token \in {"", SECRET}
    /\ http = NoRequest
    /\ logf = [work |-> TRUE, bytes |-> <<>>]
    /\ tail = NoTail
    /\ mtime = [n \in OptionalNodes |-> 1]
    /\ listing = NoListing
    /\ meta = {}
    /\ stat = NoStat
    /\ config = <<>>
    /\ built = NoBuilt
    /\ files = [f \in AllPaths |-> MISSING]
    /\ boot = NoBoot
    /\ seen = NotSeen
    /\ pipe = [p \in Pids |-> 0]
    /\ saved = NoSaved
    /\ static = NoStatic

Init == InitRun /\ InitDownload /\ InitAux

Next ==
    \/ \E t \in Threads : Unauthorized(t)
    \/ \E t \in Threads : Authorized /\ StartCheck(t)
    \/ \E t \in Threads : StartSpawn(t)
    \/ \E t \in Threads : Authorized /\ StopCheck(t)
    \/ \E t \in Threads : StopTerminate(t)
    \/ \E t \in Threads : StopWait(t)
    \/ \E t \in Threads : StopKill(t)
    \/ \E t \in Threads : StopClear(t)
    \/ \E t \in Threads : Authorized /\ StatusCheck(t)
    \/ \E p \in Pids : ProcExit(p)
    \/ Restart

Spec == Init /\ [][Next]_vars

\* The download handler over a changing file system.
NextDownload ==
    \/ Download
    \/ CreateEntry
    \/ RemoveEntry

DownloadSpec == Init /\ [][NextDownload]_vars

\* The request gate of do_GET and do_POST.
NextAuth ==
    \/ HttpGet
    \/ HttpPost

AuthSpec == Init /\ [][NextAuth]_vars

\* The log of a run and the requests that read its tail.
NextTail ==
    \/ LogAppend
    \/ LogRotate
    \/ ApiLogOpen
    \/ ApiLogRead

TailSpec == Init /\ [][NextTail]_vars

\* The base directories and the listings of them.
NextList ==
    \/ CreateEntry
    \/ RemoveEntry
    \/ Touch
    \/ List

ListSpec == Init /\ [][NextList]_vars

\* get_status beside the probe's files and one run of the probe.
NextStatus ==
    \/ GetStatusLatest
    \/ GetStatusExists
    \/ GetStatusRead
    \/ GetStatusLock
    \/ GetStatusReturn
    \/ ProbeWrites
    \/ ProbeRemoves
    \/ \E t \in Threads : Authorized /\ run_state.proc = NoProc /\ StartCheck(t)
    \/ \E t \in Threads : StartSpawn(t)
    \/ \E p \in Pids : ProcExit(p)

StatusSpec == Init /\ [][NextStatus]_vars

\* The command lines built for the bodies of /api/run under the config files.
NextBuild ==
    \/ WriteConfig
    \/ ApiRunCommand

BuildSpec == Init /\ [][NextBuild]_vars

\* main() writing its state files over the restarts of the service, and the
\* readers of the files.
NextState ==
    \/ MainStart
    \/ PickStateDir
    \/ TmpOpen
    \/ TmpWrite
    \/ TmpReplace
    \/ ReadStateFile
    \/ Restart

StateSpec == Init /\ [][NextState]_vars

\* One start of the service: main() writes its state files and then serves
\* the requests of one handler thread.
NextServe ==
    \/ PickStateDir
    \/ TmpOpen
    \/ TmpWrite
    \/ TmpReplace
    \/ Serving /\ Authorized /\ StartCheck(1)
    \/ StartSpawn(1)
    \/ Serving /\ Authorized /\ StatusCheck(1)
    \/ \E p \in Pids : ProcExit(p)

ServeSpec == Init /\ [][NextServe]_vars

\* The runs one handler thread starts and stops, and the output of their
\* probes.
NextPipe ==
    \/ StartCheck(1)
    \/ StartSpawn(1)
    \/ StopCheck(1)
    \/ StopTerminate(1)
    \/ StopWait(1)
    \/ StopKill(1)
    \/ StopClear(1)
    \/ \E p \in Pids : ProbeOutput(p)
    \/ \E p \in Pids : ProbeEnds(p)

PipeSpec == Init /\ [][NextPipe]_vars

\* The config file, written by hand and by POST /api/config.
NextConfig ==
    \/ WriteConfig
    \/ ApiConfig

ConfigSpec == Init /\ [][NextConfig]_vars

\* The requests for the static files of the UI.
NextStatic ==
    \/ StaticPath
    \/ StaticGet
    \/ StaticIndex

StaticSpec == Init /\ [][NextStatic]_vars

\* Handler steps the scheduler runs once a request is being handled; new
\* requests, process exits and restarts are up to the environment.
HandlerStep(t) ==
    \/ StartSpawn(t)
    \/ StopTerminate(t)
    \/ StopWait(t)
    \/ StopKill(t)
    \/ StopClear(t)

FairSpec == Spec /\ \A t \in Threads : WF_vars(HandlerStep(t))

\* =================================================================== claims
RecordedAlive == run_state.proc # NoProc /\ os[run_state.proc] = "alive"
SpawnStep == \E p \in Pids : os[p] = "unborn" /\ os'[p] = "alive"
Responds(kind) == result'.seq # result.seq /\ result'.kind = kind
StartPasses == \E t \in Threads : pc[t] = "idle" /\ pc'[t] = "start_spawn"
AliveCount == Cardinality({p \in Pids : os[p] = "alive"})

\* C1: a start is accepted (passes the check, spawns, answers ok) only when the
\* recorded process is not alive; a start answered while the recorded process
\* is alive gets ok=false "Probe is already running" and spawns nothing.
C1_SingleFlightStart ==
    [][ /\ (SpawnStep \/ StartPasses) => ~RecordedAlive
        /\ (Responds("start") /\ RecordedAlive) =>
              /\ ~result'.ok
              /\ result'.error = "Probe is already running"
              /\ os' = os
              /\ run_state' = run_state ]_vars

C1_Witness ==
    /\ result.kind = "start" /\ ~result.ok
    /\ RecordedAlive
    /\ AliveCount = 1

\* C2: after a restart of the service while the probe it had recorded is alive,
\* status reports running with that pid and no start passes the check.
C2_RestartHonorsLiveRun ==
    [][ (crash_run # NoProc /\ os[crash_run] = "alive" /\ restarts' = restarts) =>
            /\ Responds("status") => (result'.running /\ result'.pid = crash_run)
            /\ ~StartPasses ]_vars

\* C3: a start is rejected only while the recorded process is alive, so a start
\* that finds the recorded process exited passes the check, and the run it
\* spawns replaces the record.
C3_StaleRecordReclaimed ==
    [][ /\ (Responds("start") /\ ~result'.ok) => RecordedAlive
        /\ \A t \in Threads :
             (pc[t] = "start_spawn" /\ pc'[t] = "idle" /\ restarts' = restarts) =>
                /\ Responds("start") /\ result'.ok
                /\ os[result'.pid] = "unborn" /\ os'[result'.pid] = "alive"
                /\ run_state'.proc = result'.pid
                /\ run_state'.cmd = result'.cmd ]_vars

\* A start has passed the check while the record still names a process that
\* exited without ever being signalled (a stop would have cleared the record).
C3_Witness ==
    \E t \in Threads :
        /\ pc[t] = "start_spawn"
        /\ run_state.proc # NoProc
        /\ os[run_state.proc] = "exited"
        /\ signals[run_state.proc] = <<>>

\* C4: a stop that finds no live recorded process signals nothing, answers
\* ok=true stopped=false, and leaves run_state idle and the lock free; a stop
\* goes on to terminate only when the recorded process is alive.
C4_StopWhenNotRunning ==
    [][ /\ (\E t \in Threads : pc[t] = "idle" /\ pc'[t] = "stop_term") => RecordedAlive
        /\ (Responds("stop") /\ pc' = pc) =>
              /\ ~RecordedAlive
              /\ result'.ok /\ ~result'.stopped
              /\ run_state' = IdleRunState
              /\ lock' = NoThread
              /\ os' = os /\ signals' = signals ]_vars

\* A stop answered "not running" for a record whose process had exited on its own.
C4_Witness ==
    /\ result.kind = "stop" /\ result.ok /\ ~result.stopped
    /\ run_state = IdleRunState
    /\ \E p \in Pids : os[p] = "exited" /\ signals[p] = <<>> /\ returncode[p]

\* C5: the first signal a process gets is TERM; KILL follows only TERM and only
\* when wait() has not seen the process exit; whenever stop returns, run_state
\* is idle and the lock free; a start is rejected only while a record exists.
C5_StopTerminatesThenKills ==
    [][ /\ \A p \in Pids : signals'[p] # signals[p] =>
              \/ signals[p] = <<>> /\ signals'[p] = <<"TERM">>
              \/ signals[p] = <<"TERM">> /\ signals'[p] = <<"TERM", "KILL">> /\ ~returncode[p]
        /\ Responds("stop") => (run_state' = IdleRunState /\ lock' = NoThread)
        /\ (Responds("start") /\ ~result'.ok) => run_state.proc # NoProc ]_vars

C5_Witness ==
    /\ result.kind = "stop" /\ result.stopped
    /\ run_state = IdleRunState /\ lock = NoThread
    /\ \E p \in Pids : signals[p] = <<"TERM", "KILL">>

\* C6: once the recorded process has exited, the record is eventually released
\* or its termination recorded (Popen.returncode set), with no further request.
C6_WatcherRecordsExit ==
    \A p \in Pids :
        (run_state.proc = p /\ os[p] = "exited") ~> (run_state.proc # p \/ returncode[p])

\* C7: a status answer has running = (a process is recorded and it has not
\* exited at the time of the call), a pid only when running, and then the
\* recorded pid.
C7_StatusChecksLiveness ==
    [][ Responds("status") =>
          /\ result'.running = RecordedAlive
          /\ result'.pid # NoProc => result'.running
          /\ result'.running => result'.pid = run_state.proc
          /\ result'.cmd = run_state.cmd ]_vars

\* A status answer for a record whose process has exited: not running, no pid.
C7_Witness ==
    /\ result.kind = "status" /\ ~result.running /\ result.pid = NoProc
    /\ result.cmd # <<>>
    /\ run_state.proc # NoProc /\ os[run_state.proc] = "exited"

Responses == {resp[i] : i \in 1..Len(resp)}

RECURSIVE InsideBase(_)
InsideBase(n) ==
    /\ n # "root"
    /\ \/ \E i \in 1..Len(candidate_outbases) : Parent(n) = candidate_outbases[i]
       \/ InsideBase(Parent(n))

\* C8: the file a download reads is a regular file that lies inside one of the
\* candidate base directories.
C8_DownloadStaysInsideBases ==
    \A r \in Responses : r.opened # NoNode => (Kind(r.opened) = "file" /\ InsideBase(r.opened))

\* C9: any two refused downloads get the same status and body.
C9_RefusalsIndistinguishable ==
    \A r1, r2 \in Responses :
        (r1.status # 200 /\ r2.status # 200) => (r1.status = r2.status /\ r1.body = r2.body)

\* The run-identifier grammar <tool>-<token>-<counter>-<timestamp> with suffix
\* .tar.gz or .tar.gz.sha256, over the tokens of the model.
InstanceTokens == {"tok", "x"}
Counters == {"1", "2"}
Timestamps == {TS}
MatchesGrammar(name) ==
    \E tok \in InstanceTokens, c \in Counters, ts \in Timestamps :
        LET id == <<TOOL, tok, "-", c, "-", ts>>
        IN name = id \o <<TGZ>> \/ name = id \o <<TGZ, SHA>>

HasPrefixAndSuffix(name) ==
    /\ Len(name) >= 2
    /\ name[1] = TOOL
    /\ \/ name[Len(name)] = TGZ
       \/ Len(name) >= 3 /\ name[Len(name) - 1] = TGZ /\ name[Len(name)] = SHA

GatedRequest ==
    \/ http.method \in {"GET", "POST"} /\ http.path[1] = "/api/"
    \/ http.method = "GET" /\ http.path[1] = "/download/"
LetThrough == http.out.handler # "none"
\* Some channel of the last request holds the configured secret.
CarriesSecret ==
    \/ http.hdr # ABSENT /\ strip(http.hdr) = app_token
    \/ Len(http.auth) = 3 /\ lower(http.auth[1]) = "bearer" /\ strip(http.auth[3]) = app_token
    \/ \E i \in 1..Len(http.query) : http.query[i] = app_token
\* The first channel, in the order header, Bearer, query, that holds a token
\* holds the secret.
HeaderBlank == http.hdr = ABSENT \/ strip(http.hdr) = ""
BearerScheme == Len(http.auth) >= 2 /\ lower(http.auth[1]) = "bearer"
FirstTokenIsSecret ==
    \/ ~HeaderBlank /\ strip(http.hdr) = app_token
    \/ HeaderBlank /\ BearerScheme /\ Len(http.auth) = 3 /\ strip(http.auth[3]) = app_token
    \/ /\ HeaderBlank /\ ~BearerScheme
       /\ parse_qs_token(http.query) # <<>>
       /\ parse_qs_token(http.query)[1] = app_token

\* C11: with a token configured, a request to /api/ or /download/ that carries
\* the secret in no channel is answered 401 'unauthorized' and reaches no
\* handler; with no token configured every such request reaches its handler.
C11_GateAnswersEveryRequest ==
    GatedRequest =>
        /\ (app_token # "" /\ ~CarriesSecret) => http.out = UnauthorizedOutcome
        /\ app_token = "" => LetThrough

\* C12 as stated: with a token configured, a request that carries the secret
\* in any one channel is let through, whatever the other channels hold.
C12_AnyChannelAuthorizes ==
    (GatedRequest /\ app_token # "" /\ CarriesSecret) => LetThrough

\* C12 amended: with a token configured, a request is let through if the first
\* channel that holds a token (X-KMP-Token, else Authorization: Bearer, else
\* the first non-blank ?token=) holds the secret.
C12_FirstChannelAuthorizes ==
    (GatedRequest /\ app_token # "" /\ FirstTokenIsSecret) => LetThrough
C12_Witness ==
    /\ GatedRequest /\ app_token # "" /\ LetThrough
    /\ http.hdr = " " /\ http.auth = <<"Bearer", " ", SECRET>> /\ http.query = <<"wrong">>

\* C13: a start answered "already running" leaves the recorded run unchanged
\* and spawns nothing; a request answered 'unauthorized' spawns nothing,
\* signals nothing and leaves the run state unchanged.
C13_RejectedChangesNothing ==
    [][ /\ (Responds("start") /\ ~result'.ok) =>
             (run_state' = run_state /\ os' = os /\ ~SpawnStep)
        /\ Responds("unauthorized") =>
             (run_state' = run_state /\ os' = os /\ signals' = signals /\ ~SpawnStep) ]_vars
C13_Witness == result.kind = "unauthorized" /\ RecordedAlive


\* ------------------------------------------------------------------- the tail
\* An /api/log request is answered in this step.
LogAnswered == tail.pc # "done" /\ tail'.pc = "done"

\* C14: the log request reads at most max_bytes bytes of the file, and the
\* content it returns is exactly the last min(size, max_bytes) bytes of the
\* file as it is when read.
C14_TailReadsLastBytes ==
    [][ LogAnswered =>
          /\ tail'.nread <= tail'.max_bytes
          /\ encode(tail'.text) = LastBytes(logf.bytes, tail'.max_bytes) ]_vars

\* C15: the answer to a request for n lines holds at most n lines, the last
\* ones of the log.
C15_TailReturnsLineCount ==
    [][ LogAnswered =>
          /\ LineCount(tail'.text) <= tail'.lines
          /\ \E n \in 0..Len(logf.bytes) : tail'.text = decode(LastBytes(logf.bytes, n)) ]_vars

\* --------------------------------------------------------------- the listings
Listed == {listing.archives[i] : i \in 1..Len(listing.archives)}
\* The entries of the base directories that are work directories, archives.
WorkDirs == {n \in fs : Parent(n) \in {"out", "tmp"} /\ EntryName(n)[Len(EntryName(n))] = ".work"
                        /\ is_dir(n)}
Archives == {n \in fs : Parent(n) \in {"out", "tmp"} /\ EntryName(n)[Len(EntryName(n))] = TGZ
                        /\ is_file(n)}
Newest(S, n) == n \in S /\ \A x \in S : mtime[x] <= mtime[n]

\* C19: the archive list is in non-increasing order of mtime, and the latest
\* work directory (archive) is one of greatest mtime among the work
\* directories (archives) of all base directories.
C19_ListedNewestFirst ==
    listing.pc = "done" =>
        /\ \A i \in 1..(Len(listing.archives) - 1) :
               listing.archives[i].mtime >= listing.archives[i + 1].mtime
        /\ \A i \in 1..Len(listing.archives) :
               listing.archives[i].mtime = mtime[listing.archives[i].path]
        /\ IF WorkDirs = {} THEN listing.workdir = NoNode ELSE Newest(WorkDirs, listing.workdir)
        /\ IF Archives = {} THEN listing.archive = NoNode ELSE Newest(Archives, listing.archive)
C19_Witness ==
    /\ listing.pc = "done"
    /\ Len(listing.archives) >= 3
    /\ listing.archives[1].mtime > listing.archives[3].mtime
    /\ listing.archives[1].base = "tmp" /\ listing.archives[3].base = "out"
    /\ listing.workdir = "work" /\ "work2" \in fs /\ mtime["work"] > mtime["work2"]

MatchesWorkGrammar(name) ==
    \E tok \in InstanceTokens, c \in Counters, ts \in Timestamps :
        name = <<TOOL, tok, "-", c, "-", ts, ".work">>

StatusStep == <<stat'.pc, stat'.i>> # <<stat.pc, stat.i>>
StatusAnswered == stat.pc = "list" /\ stat'.pc = "idle"

\* C16: when get_status answers with no run active, after an answer with no
\* run active, with no change of the files since that call began and no run
\* started in between, the two answers are equal; and no step of get_status
\* changes the run state, a process, or a file.
C16_StatusIdempotent ==
    [][ /\ ( /\ StatusAnswered
             /\ stat.last # Void /\ stat'.last # Void
             /\ ~stat.last.running /\ ~stat'.last.running
             /\ stat'.last_proc = stat.last_proc )
            => stat'.last = stat.last
        /\ StatusStep =>
              /\ run_state' = run_state /\ os' = os /\ signals' = signals
              /\ fs' = fs /\ meta' = meta /\ mtime' = mtime /\ logf' = logf ]_vars
C16_Witness ==
    /\ stat.pc = "idle" /\ stat.repeat /\ stat.last # Void
    /\ ~stat.last.running /\ stat.last.cmd # <<>>
    /\ stat.last.latest.workdir = "work" /\ stat.last.latest.progress = <<"phase.txt", "">>
    /\ Len(stat.last.archives) = 1

\* C17: no get_status call raises, whatever the probe does to its files.
C17_StatusNeverRaises == stat.pc # "raised"

\* ----------------------------------------------------------- the command line
\* The value that follows option on the command line.
OptionValue(cmd, option) ==
    LET i == CHOOSE i \in 1..Len(cmd) : cmd[i] = option IN cmd[i + 1]
OptionOf(key) ==
    CASE key = "LANG_UI" -> "--lang" [] key = "MODE" -> "--mode" [] key = "PROFILE" -> "--profile"
      [] key = "COLLECTORS" -> "--collectors" [] key = "OUTBASE_POLICY" -> "--outbase-policy"
      [] key = "DEPS_LEVEL" -> "--deps-level" [] key = "DEPS_MODE" -> "--deps-mode"
      [] key = "MAX_CPU" -> "--max-cpu" [] key = "MAX_MEM" -> "--max-mem" [] key = "JOBS" -> "--jobs"
\* The value is the decimal form of a non-negative integer.
IsNonNegativeInteger(v) == v \in {"0", "1", "7", "85", "95"}

\* C18: on every command line built, the value of each enumerated parameter
\* is in its allow-list, --max-cpu and --max-mem are non-negative integers,
\* and --jobs is a non-negative integer or 'auto'.
C18_CommandLineValuesValid ==
    built.pc = "done" =>
        /\ \A key \in EnumKeys : OptionValue(built.cmd, OptionOf(key)) \in ALLOWED[key]
        /\ IsNonNegativeInteger(OptionValue(built.cmd, "--max-cpu"))
        /\ IsNonNegativeInteger(OptionValue(built.cmd, "--max-mem"))
        /\ \/ IsNonNegativeInteger(OptionValue(built.cmd, "--jobs"))
           \/ OptionValue(built.cmd, "--jobs") = "auto"

\* ------------------------------------------------------------ the lock and reads
\* A stop is inside its grace period: SIGTERM sent, proc.wait(timeout) running.
StopWaiting == \E s \in Threads : pc[s] = "stop_wait_exit"

\* C21: a status request is never blocked by a stop in progress: while a stop
\* waits out its grace period, an idle thread can take a status request and
\* answer it.
C21_StatusNeverBlocked ==
    (StopWaiting /\ \E t \in Threads : pc[t] = "idle")
        => ENABLED (\E t \in Threads : StatusCheck(t))

\* ------------------------------------------------------- the status snapshot
\* get_status chooses the source of its snapshot in this step.
SnapshotChosen == stat.pc \in {"idle", "raised"} /\ stat'.pc \notin {"idle", "raised"}

\* C22: the snapshot comes from the latest work directory whenever a work
\* directory exists, from the latest archive (at most the budget read from its
\* summary member) only when none exists, is empty when neither exists, and
\* never holds both a work directory and an archive.
C22_SnapshotFromOneSource ==
    [][ /\ SnapshotChosen =>
             IF WorkDirs # {}
             THEN Newest(WorkDirs, stat'.workdir) /\ stat'.archive = NoNode /\ stat'.nread = 0
             ELSE /\ stat'.workdir = NoNode
                  /\ stat'.nread <= SummaryBytes
                  /\ IF Archives # {} THEN Newest(Archives, stat'.archive)
                     ELSE stat'.archive = NoNode /\ stat'.summary = ""
        /\ stat'.workdir = NoNode \/ stat'.archive = NoNode
        /\ stat'.workdir = NoNode => stat'.progress = <<>>
        /\ stat'.last # Void =>
             /\ stat'.last.latest.workdir = NoNode \/ stat'.last.latest.archive = NoNode
             /\ stat'.last.latest.workdir = NoNode => stat'.last.latest.progress = <<>> ]_vars
C22_Witness ==
    /\ stat.pc = "idle" /\ stat.last # Void
    /\ stat.last.latest.workdir = NoNode /\ stat.last.latest.archive = "arch"
    /\ stat.last.latest.summary = "null" /\ stat.nread = SummaryBytes

\* A content some start of the service wrote whole.
Complete(content) == \E n \in 0..restarts : content = Content(n)

\* C23: a state file is written to its .tmp file and renamed into place: the
\* file, and what a reader running during a write observes of it, is absent
\* (never written yet) or the complete content of one start of the service,
\* never a part of one.
C23_StateFileNeverPartial ==
    /\ \A path \in StatePaths : files[path] = MISSING \/ Complete(files[path])
    /\ seen # NotSeen => (seen.content = MISSING \/ Complete(seen.content))

\* A reader got the complete previous content of the file whose new content
\* is half-way into the .tmp file.
C23_Witness ==
    /\ boot.n = 1 /\ boot.n = restarts /\ boot.pc = "write"
    /\ Len(files[with_suffix_tmp(StateFiles[boot.i])]) = 1
    /\ seen.path = StateFiles[boot.i]
    /\ seen.content = Content(0)

\* C24: a state file that cannot be written stops nothing: main() goes on to
\* serve, a start is accepted and recorded in run_state, a start is refused
\* only for a live recorded process, and status reports the recorded run.
C24_WriteFailureNotFatal ==
    [][ boot'.failed =>
          /\ boot'.pc # "dead"
          /\ SpawnStep =>
                /\ Responds("start") /\ result'.ok
                /\ run_state'.proc = result'.pid
                /\ run_state'.cmd = result'.cmd
                /\ os'[run_state'.proc] = "alive"
          /\ (Responds("start") /\ ~result'.ok) => RecordedAlive
          /\ Responds("status") =>
                /\ result'.running = RecordedAlive
                /\ result'.running => result'.pid = run_state.proc ]_vars

\* After a failed write the service serves, has started a run and reports it
\* as running.
C24_Witness ==
    /\ boot.failed /\ Serving
    /\ result.kind = "status" /\ result.running
    /\ RecordedAlive /\ result.pid = run_state.proc


\* C25: the pipe opened for a probe is closed once the run has ended, however
\* it ended, and a probe is never blocked writing to a pipe nobody reads.
C25_PipeClosedNeverBlocks ==
    \A p \in Pids :
        /\ os[p] = "exited" => ~PipeHeld(p)
        /\ ~Blocked(p)


\* The path lies under one of the directories candidate_outbases() knows:
\* /var/tmp, /opt/var/tmp, /opt/tmp, /storage/var/tmp, /storage/tmp, /tmp.
UnderKnownBase(path) == path \in {"/tmp/out"}

\* C26: --outbase is on the command line only with an absolute path that lies
\* under a known candidate base directory.
C26_OutbaseUnderKnownBase ==
    built.pc = "done" =>
        \A i \in 1..Len(built.cmd) :
            built.cmd[i] = "--outbase" =>
                is_absolute(built.cmd[i + 1]) /\ UnderKnownBase(built.cmd[i + 1])


\* C27: in every reachable state at most one probe spawned by the service is
\* alive.
C27_AtMostOneProbeAlive == AliveCount <= 1


\* The three fields of a run record are set together or cleared together.
Consistent(rs) == (rs.proc = NoProc) <=> (rs.cmd = <<>> /\ rs.started_ts = 0)
\* The step is taken inside `with self.lock:`: by the thread that holds the
\* lock, or by one that takes and leaves it within the step.
UnderLock ==
    \/ lock = NoThread /\ lock' = NoThread
    \/ lock # NoThread /\ pc'[lock] # pc[lock]

\* C28: the run record is consistent in every reachable state (no process
\* exactly when the command line is empty and the start time is 0), and a
\* handler changes it only under the lock, to the record of the process it
\* spawns in that step or to the empty record.
C28_RunRecordConsistent ==
    /\ Consistent(run_state)
    /\ [][ /\ Consistent(run_state')
           /\ (run_state' # run_state /\ restarts' = restarts) =>
                 /\ UnderLock
                 /\ \/ run_state' = IdleRunState
                    \/ SpawnStep /\ os[run_state'.proc] = "unborn" ]_vars

\* A start filled the record and a stop, answered "stopped", has emptied it.
C28_Witness ==
    /\ result.kind = "stop" /\ result.stopped
    /\ run_state = IdleRunState
    /\ \E p \in Pids : signals[p] # <<>>


\* The keys of the key=value lines of a config file.
LineKeys(lines) == {lines[i][1] : i \in {j \in 1..Len(lines) : Len(lines[j]) >= 2}}
\* The value is an integer in 0..65535.
IsPortNumber(v) == v \in {"0", "80", " 80 ", "65535"}
\* What a config update is to save for a known key of its body.
ToSave(k, v) ==
    IF k = "WEB_BIND" THEN (IF v \in {"127.0.0.1", "0.0.0.0"} THEN v ELSE "0.0.0.0")
    ELSE IF k = "WEB_PORT" THEN (IF IsPortNumber(v) THEN v ELSE "0")
    ELSE v

RECURSIVE InsideStatic(_)
InsideStatic(n) ==
    /\ n \in DOMAIN StaticParent /\ n # "app"
    /\ StaticParent[n] = static_root \/ InsideStatic(StaticParent[n])
\* The path holds "..", starts with "." or "~", or holds a backslash.
Traversing(rel) ==
    \/ \E i \in 1..Len(rel) : rel[i] \in {UP, BACKSLASH}
    \/ \E i \in 1..(Len(rel) - 1) : rel[i] = DOT /\ rel[i + 1] = DOT
    \/ rel # <<>> /\ rel[1] \in {DOT, TILDE, ".hidden"}

\* C30: a request for "/" or "/static/..." is answered by serve_static whatever
\* credentials it carries; a file it reads lies inside the static root; a path
\* that holds "..", starts with "." or "~", or holds a backslash is refused
\* with 400 "Bad path" and nothing is read.
C30_StaticStaysInsideRoot ==
    static.pc = "done" =>
        /\ static.handler = "serve_static"
        /\ static.status \in {200, 400, 404}
        /\ static.read # NoNode => (InsideStatic(static.read) /\ static.status = 200)
        /\ Traversing(static.rel) =>
              (static.status = 400 /\ static.body = "Bad path" /\ static.read = NoNode)

\* The file next to the static root was asked for by way of "..": refused.
C30_Witness ==
    /\ static.pc = "done" /\ static.route = "/static/"
    /\ static.rel = <<UP, SEP, "server.py">>
    /\ static.status = 400 /\ static.body = "Bad path" /\ static.read = NoNode

====
